---- MODULE Spec2Model ----
(***************************************************************************)
(* AdminArticleController (src/articledto.ts): the create / update /       *)
(* delete workflows of the admin article endpoints, with the injected      *)
(* collaborators (article use-cases, tag repository, file uploader, file   *)
(* deleter) as state the workflows read and write.                         *)
(*                                                                         *)
(* Text is modelled at the level of lexical units: a request string is a   *)
(* sequence of units.  The units are "[", "]", ",", the double quote, the   *)
(* blank, identifiers, and whole JSON object literals (ObjUnits), so that  *)
(* JSON.parse, String.split and String.trim are computed and not assumed.  *)
(***************************************************************************)
EXTENDS Integers, Sequences, FiniteSets, TLC

\* ------------------------------------------------------------------ bounds
\* Requests handled in one behaviour.
MaxRequests == 1
\* The number of lifecycle requests in a behaviour of SpecLifecycle.
MaxTransitions == 3
\* The number of requests in a behaviour of SpecParallel.
MaxParallel == 2

\* ------------------------------------------------------------- text units
Quote == "\""
Blank == " "
\* undefined, for a structured value and for a string.
Undef == [k |-> "undefined"]
UndefStr == "<undefined>"
Some(v) == [k |-> "some", v |-> v]

\* JSON object literals, each one lexical unit; the name it carries ("" when
\* the literal has no name property).
ObjUnits == {"{x}", "{y}", "{}"}
ObjName(u) == CASE u = "{x}" -> "x" [] u = "{y}" -> "y" [] OTHER -> ""

RECURSIVE Join(_)
Join(s) == IF s = <<>> THEN "" ELSE Head(s) \o Join(Tail(s))

\* String.prototype.trim on a unit sequence.
RECURSIVE TrimLeft(_)
TrimLeft(s) == IF s # <<>> /\ Head(s) = Blank THEN TrimLeft(Tail(s)) ELSE s
RECURSIVE TrimRight(_)
TrimRight(s) ==
    IF s # <<>> /\ s[Len(s)] = Blank THEN TrimRight(SubSeq(s, 1, Len(s) - 1)) ELSE s
Trim(s) == TrimRight(TrimLeft(s))

\* String.prototype.split(","): the pieces between commas, empty ones kept.
RECURSIVE SplitFrom(_, _, _)
SplitFrom(s, i, cur) ==
    IF i > Len(s) THEN <<cur>>
    ELSE IF s[i] = "," THEN <<cur>> \o SplitFrom(s, i + 1, <<>>)
    ELSE SplitFrom(s, i + 1, Append(cur, s[i]))
Split(s) == SplitFrom(s, 1, <<>>)

\* JSON values: a string, an array, an object (its name property).
JStr(s) == [t |-> "str", s |-> s, a |-> <<>>]
JArr(a) == [t |-> "arr", s |-> "", a |-> a]
JObj(n) == [t |-> "obj", s |-> n, a |-> <<>>]
JFail == [ok |-> FALSE, v |-> JStr(""), next |-> 0]

RECURSIVE SkipWs(_, _)
SkipWs(s, i) == IF i <= Len(s) /\ s[i] = Blank THEN SkipWs(s, i + 1) ELSE i

\* The position of the quote that closes a string whose content starts at i;
\* 0 when there is none.  An object literal with a name holds quote
\* characters of its own: the string would end inside it, and what follows
\* that quote is no JSON.
RECURSIVE CloseQuote(_, _)
CloseQuote(s, i) ==
    IF i > Len(s) THEN 0
    ELSE IF s[i] = Quote THEN i
    ELSE IF s[i] \in ObjUnits /\ ObjName(s[i]) # "" THEN 0
    ELSE CloseQuote(s, i + 1)

\* One JSON value starting at or after position i (blanks skipped).
RECURSIVE ParseValue(_, _)
RECURSIVE ParseElems(_, _, _)
ParseValue(s, i) ==
    LET j == SkipWs(s, i) IN
    IF j > Len(s) THEN JFail
    ELSE IF s[j] = Quote THEN
        LET k == CloseQuote(s, j + 1) IN
        IF k = 0 THEN JFail
        ELSE [ok |-> TRUE, v |-> JStr(Join(SubSeq(s, j + 1, k - 1))), next |-> k + 1]
    ELSE IF s[j] \in ObjUnits THEN
        [ok |-> TRUE, v |-> JObj(ObjName(s[j])), next |-> j + 1]
    ELSE IF s[j] = "[" THEN
        LET k == SkipWs(s, j + 1) IN
        IF k <= Len(s) /\ s[k] = "]"
        THEN [ok |-> TRUE, v |-> JArr(<<>>), next |-> k + 1]
        ELSE ParseElems(s, j + 1, <<>>)
    ELSE JFail
\* The elements of an array after its "[" or after a ",", up to its "]".
ParseElems(s, i, acc) ==
    LET e == ParseValue(s, i) IN
    IF ~e.ok THEN JFail
    ELSE LET k == SkipWs(s, e.next) IN
         IF k > Len(s) THEN JFail
         ELSE IF s[k] = "]"
              THEN [ok |-> TRUE, v |-> JArr(Append(acc, e.v)), next |-> k + 1]
         ELSE IF s[k] = "," THEN ParseElems(s, k + 1, Append(acc, e.v))
         ELSE JFail

\* JSON.parse: one value and nothing but blanks after it; a SyntaxError
\* (ok = FALSE) otherwise.
JSONParse(s) ==
    LET r == ParseValue(s, 1) IN
    IF r.ok /\ SkipWs(s, r.next) > Len(s) THEN r ELSE JFail

\* Array.prototype.flat() (depth 1).
RECURSIVE Flat(_)
Flat(a) ==
    IF a = <<>> THEN <<>>
    ELSE (IF Head(a).t = "arr" THEN Head(a).a ELSE <<Head(a)>>) \o Flat(Tail(a))

\* The identifier a parsed element is compared as: a string is itself; an
\* array or an object is a value that equals no identifier.
NoId == "#"
RECURSIVE ElemIds(_)
ElemIds(a) ==
    IF a = <<>> THEN <<>>
    ELSE <<IF Head(a).t = "str" THEN Head(a).s ELSE NoId>> \o ElemIds(Tail(a))

RECURSIVE NonEmpty(_)
NonEmpty(a) ==
    IF a = <<>> THEN <<>>
    ELSE (IF Head(a) = "" THEN <<>> ELSE <<Head(a)>>) \o NonEmpty(Tail(a))

RECURSIVE MapTrimJoin(_)
MapTrimJoin(pieces) ==
    IF pieces = <<>> THEN <<>>
    ELSE <<Join(Trim(Head(pieces)))>> \o MapTrimJoin(Tail(pieces))

\* A request field that takes a list: absent (Undef), a real array of
\* strings (flat() and the null filter leave such an array as it is), or one
\* string.
ArrField(items) == [k |-> "array", items |-> items]
StrField(text) == [k |-> "string", text |-> text]

\* parseArrayField: the tolerant parse of removedImages, removedVideos,
\* removedTags and tags in the update flow.
parseArrayField(value) ==
    IF value = Undef THEN <<>>
    ELSE IF value.k = "array" THEN value.items
    ELSE IF value.text = <<>> THEN <<>>
    ELSE LET p == JSONParse(value.text) IN
         IF p.ok THEN
             IF p.v.t = "arr" THEN ElemIds(Flat(p.v.a))
             ELSE IF p.v.t = "str" /\ p.v.s = "" THEN <<>>
             ELSE ElemIds(<<p.v>>)
         ELSE NonEmpty(MapTrimJoin(Split(value.text)))

\* The inline tag specs of a create request (dto.tags): JSON.parse of the
\* text, then of the text wrapped in brackets; a single value is wrapped into
\* an array; every element must have a name.  err is "none", "syntax"
\* (SyntaxError -> "Invalid JSON format for tags") or "noname" ("Each tag
\* must have a name"); names are the names of the specs.
AllNamed_Unchecked(a) == TRUE
RECURSIVE AllNamed(_)
AllNamed(a) ==
    a = <<>> \/ (Head(a).t = "obj" /\ Head(a).s # "" /\ AllNamed(Tail(a)))
RECURSIVE Names(_)
Names(a) == IF a = <<>> THEN <<>> ELSE <<Head(a).s>> \o Names(Tail(a))
parseTags(value) ==
    IF value = Undef THEN [err |-> "none", names |-> <<>>]
    ELSE IF value.text = <<>> THEN [err |-> "none", names |-> <<>>]
    ELSE LET text == value.text
             p1 == JSONParse(text)
             p2 == JSONParse(<<"[">> \o text \o <<"]">>)
             p == IF p1.ok THEN p1 ELSE p2
             arr == IF p.v.t = "arr" THEN p.v.a ELSE <<p.v>>
         IN IF ~p.ok THEN [err |-> "syntax", names |-> <<>>]
            ELSE IF ~AllNamed(arr) THEN [err |-> "noname", names |-> <<>>]
            ELSE [err |-> "none", names |-> Names(arr)]

\* The existing tag IDs of a create request (dto.tagIds): an array is used as
\* it is, a string is split at commas and each piece trimmed (empty pieces
\* are kept).
parseTagIds_Whole(value) ==
    IF value = Undef THEN <<>>
    ELSE IF value.k = "array" THEN value.items
    ELSE <<Join(value.text)>>
parseTagIds(value) ==
    IF value = Undef THEN <<>>
    ELSE IF value.k = "array" THEN value.items
    ELSE IF value.text = <<>> THEN <<>>
    ELSE MapTrimJoin(Split(value.text))

\* ------------------------------------------------------------ data model
ScalarFields ==
    {"title", "titleAr", "content", "contentAr", "summary", "summaryAr", "categoryId"}

User(id, role) == [id |-> id, email |-> id \o "@mail", role |-> role]
NoUser == [id |-> "", email |-> "", role |-> "NONE"]
Users == {User("u1", "AUTHOR"), User("u2", "AUTHOR"), User("u3", "EDITOR"),
          User("u4", "ADMIN")}

\* The articles, tags and files that exist before the first request.
OldFields == [f \in ScalarFields |-> "v0"]
OwnArticle(status, featured) ==
    [status |-> status, authorId |-> "u1", authorEmail |-> "u1@mail",
     fields |-> OldFields, tags |-> <<"p", "q">>, images |-> <<"A", "B", "C">>,
     videos |-> <<"V">>, featured |-> featured,
     publishedAt |-> IF status = "draft" THEN UndefStr ELSE "day0"]
OtherArticle ==
    [status |-> "published", authorId |-> "u2", authorEmail |-> "u2@mail",
     fields |-> OldFields, tags |-> <<"p">>, images |-> <<"Y">>,
     videos |-> <<>>, featured |-> UndefStr, publishedAt |-> "day0"]
OldTags == {[id |-> "p", name |-> "x"], [id |-> "q", name |-> "z"]}
OldFiles == {"A", "B", "C", "V", "M", "Y", "Z"}

VARIABLES
    articles,     \* article persistence: article ID -> article
    tagRepo,      \* tag repository: the Tag entities
    storage,      \* storage backend: the IDs of the files it holds
    nextArticle,  \* number of the next article ID
    nextTag,      \* number of the next randomUUID of a tag
    nextFile,     \* number of the next file ID the uploader returns
    budget,       \* requests that may still be started
    req           \* the request of each slot: position, inputs, locals, calls

vars == <<articles, tagRepo, storage, nextArticle, nextTag, nextFile, budget, req>>

Slots == {1}

Idle ==
    [op |-> "none", pc |-> "idle", user |-> NoUser, target |-> "", inp |-> Undef,
     art |-> "", existing |-> Undef, tagIds |-> <<>>, names |-> <<>>,
     allTags |-> <<>>, upFeatured |-> UndefStr, upImages |-> <<>>,
     upVideos |-> <<>>, removed |-> Undef, idx |-> 0, todo |-> <<>>,
     log |-> <<>>, data |-> {}, result |-> "pending", thrown |-> "none",
     awaited |-> <<>>, flight |-> {}]

\* One call of a collaborator: the operation, the ID it is about, the command
\* it carries (for an upload, the file field the file came in), and whether it
\* succeeded.
Call(op, id, cmd, ok) == [op |-> op, id |-> id, cmd |-> cmd, ok |-> ok]

TagIdsOf(repo) == {t.id : t \in repo}
SeqToSet(q) == {q[i] : i \in 1..Len(q)}

RECURSIVE SelectNotIn(_, _)
SelectNotIn(q, set) ==
    IF q = <<>> THEN <<>>
    ELSE (IF Head(q) \in set THEN <<>> ELSE <<Head(q)>>) \o SelectNotIn(Tail(q), set)

ArticleId(n) == "a" \o ToString(n)
FileId(n) == "f" \o ToString(n)
TagId(n) == "n" \o ToString(n)

\* ------------------------------------------- the article use-cases (store)
\* UpdateArticleUsecase: the fields a command carries overwrite the stored
\* ones, the fields it leaves undefined keep their values.
NoFieldChange == [f \in ScalarFields |-> UndefStr]
UpdateCommand(id, fields, images, videos, tags, tagsToRemove, featured) ==
    [id |-> id, fields |-> fields, images |-> images, videos |-> videos,
     tags |-> tags, tagsToRemove |-> tagsToRemove, featured |-> featured]
ApplyUpdate(a, cmd) ==
    [a EXCEPT
        !.fields = [f \in ScalarFields |->
                       IF cmd.fields[f] = UndefStr THEN @[f] ELSE cmd.fields[f]],
        !.images = IF cmd.images = Undef THEN @ ELSE cmd.images.v,
        !.videos = IF cmd.videos = Undef THEN @ ELSE cmd.videos.v,
        !.tags = IF cmd.tags = Undef THEN @ ELSE cmd.tags.v,
        !.featured = IF cmd.featured = UndefStr THEN @ ELSE cmd.featured]

\* CreateArticleUsecase: the article a create command persists.
NewArticle(cmd) ==
    [status |-> cmd.status, authorId |-> cmd.authorId, authorEmail |-> cmd.authorEmail,
     fields |-> cmd.fields, tags |-> cmd.tags, images |-> cmd.images,
     videos |-> cmd.videos, featured |-> cmd.featured,
     publishedAt |-> IF cmd.status = "published" THEN "day1" ELSE UndefStr]

\* DeleteArticleUsecase: the store without the article.
Without(store, id) == [x \in DOMAIN store \ {id} |-> store[x]]

\* ---------------------------------------------------------------- requests
Step(r, rec) == req' = [req EXCEPT ![r] = rec]

\* The request ends with the response `result`; `thrown` keeps the exception
\* first raised in the handler.
Finish(q, result, thrown) ==
    [q EXCEPT !.pc = "done", !.result = result,
              !.thrown = IF @ = "none" THEN thrown ELSE @]

Logged(q, calls) == [q EXCEPT !.log = @ \o calls]

\* A new request in slot r; the calls an earlier request of the slot left in
\* flight stay in flight.
Begin(r, op, user, target, inp) ==
    [Idle EXCEPT !.op = op, !.user = user, !.target = target, !.inp = inp,
                 !.flight = {[c EXCEPT !.at = 0] : c \in req[r].flight}]

\* A call issued inside a Promise.all and not completed yet: the await it was
\* issued under (the position of the request there), its place in the group,
\* the operation, the ID it is about, the name of the tag it creates, whether
\* the collaborator will succeed, whether its own try/catch swallows its
\* failure, and the place of the call in the log of the request (0 once the
\* slot holds a later request).
InFlight(grp, i, op, id, name, ok, guarded, at) ==
    [grp |-> grp, i |-> i, op |-> op, id |-> id, name |-> name, ok |-> ok,
     guarded |-> guarded, at |-> at]

\* The request leaves the await it is at: the calls still in flight are no
\* longer awaited by anyone, and complete on their own.
Abandon(q) == [q EXCEPT !.flight = {[c EXCEPT !.grp = "none"] : c \in @}, !.awaited = <<>>]

CanBegin(r) == req[r].pc \in {"idle", "done"} /\ budget > 0

\* ------------------------------------------------------------ create flow
CreateTagTexts ==
    {Undef,
     StrField(<<"[", "{x}", ",", "{y}", "]">>),
     StrField(<<"{x}">>),
     StrField(<<"{x}", ",", "{x}">>),
     StrField(<<"[", "{x}", ",", "{}", "]">>),
     StrField(<<"[", "{x}">>)}
CreateTagIds ==
    {Undef,
     ArrField(<<"p", "q">>),
     StrField(<<"p", ",", Blank, "q">>),
     StrField(<<"p", ",", "q">>),
     ArrField(<<"p", "u">>),
     StrField(<<"p", ",", "u">>),
     ArrField(<<"p", "p">>)}
\* An uploaded file is TRUE when it has a byte payload (buffer).
CreateBase ==
    [user |-> User("u1", "AUTHOR"), status |-> "draft", tags |-> Undef,
     tagIds |-> Undef, featuredMedia |-> <<>>, images |-> <<>>, videos |-> <<>>]
CreateInputs ==
    {[CreateBase EXCEPT !.user = u] : u \in {NoUser} \cup Users}
    \cup {[CreateBase EXCEPT !.user = u, !.status = st, !.tags = tg, !.tagIds = ti,
                             !.featuredMedia = fm, !.images = im] :
        u \in {User("u1", "AUTHOR"), User("u3", "EDITOR")},
        st \in {"draft", "published"}, tg \in CreateTagTexts, ti \in CreateTagIds,
        fm \in {<<>>, <<TRUE>>}, im \in {<<>>, <<TRUE, TRUE>>}}
    \cup {[CreateBase EXCEPT !.tags = tg, !.featuredMedia = fm, !.images = im,
                             !.videos = vi] :
        tg \in {Undef, StrField(<<"{x}">>)},
        fm \in {<<>>, <<TRUE>>, <<FALSE>>},
        im \in {<<>>, <<TRUE, TRUE>>, <<TRUE, FALSE, TRUE>>},
        vi \in {<<>>, <<TRUE>>, <<FALSE, TRUE>>}}

NewFields == [f \in ScalarFields |-> "v1"]

\* The command of the first persist: no tags, no media.
SkeletonCommand_Draft(inp) ==
    [status |-> "draft", authorId |-> inp.user.id, authorEmail |-> inp.user.email,
     fields |-> NewFields, tags |-> <<>>, images |-> <<>>, videos |-> <<>>,
     featured |-> UndefStr]
SkeletonCommand(inp) ==
    [status |-> inp.status, authorId |-> inp.user.id, authorEmail |-> inp.user.email,
     fields |-> NewFields, tags |-> <<>>, images |-> <<>>, videos |-> <<>>,
     featured |-> UndefStr]

\* A failure inside the inner try: on to the compensating delete.
ToCompensate(q, thrown) ==
    [q EXCEPT !.pc = "c_comp", !.thrown = IF @ = "none" THEN thrown ELSE @]

\* Promise.all resolved: the request goes on after the await, with the
\* results of the group in the order the calls were issued.
Resume(q) ==
    CASE q.pc = "c_lookup_w" ->
            [q EXCEPT !.pc = "c_newtags", !.allTags = @ \o q.awaited, !.awaited = <<>>]
      [] q.pc = "c_newtags_w" ->
            [q EXCEPT !.pc = "c_tagupdate", !.allTags = @ \o q.awaited, !.awaited = <<>>]
      [] q.pc = "u_delete_w" -> [q EXCEPT !.pc = "u_featured", !.awaited = <<>>]
      [] q.pc = "u_images_w" ->
            [q EXCEPT !.pc = "u_videos", !.upImages = q.awaited, !.awaited = <<>>]
      [] q.pc = "u_videos_w" ->
            [q EXCEPT !.pc = "u_persist", !.upVideos = q.awaited, !.awaited = <<>>]

\* Promise.all rejected: the catch of the handler runs, the compensation in
\* create and the BadRequest in update, while the other calls of the group
\* are still in flight.
Caught(q, thrown) ==
    IF q.op = "create" THEN ToCompensate(Abandon(q), thrown)
    ELSE Finish(Abandon(q), "BadRequest", thrown)

\* One call in flight completes: its effect on the tag repository or on the
\* storage lands; a lookup reads the tag repository as it is now, and its
\* outcome is entered in the log.  When the request still awaits the group of
\* the call, a failure that no try/catch swallows rejects the await, so does
\* a lookup that found no tag (BadRequest), and the last call of the group to
\* complete resolves it.
Completes(r, c) ==
    LET found == c.ok /\ c.id \in TagIdsOf(tagRepo)
        q0 == [req[r] EXCEPT !.flight = @ \ {c}]
        q == IF c.op = "findById" /\ c.at > 0 THEN [q0 EXCEPT !.log[c.at].ok = found]
             ELSE q0
    IN
    /\ c \in req[r].flight
    /\ tagRepo' = IF c.ok /\ c.op = "createTag"
                  THEN tagRepo \cup {[id |-> c.id, name |-> c.name]} ELSE tagRepo
    /\ storage' = IF c.ok /\ c.op = "uploadFile" THEN storage \cup {c.id}
                  ELSE IF c.ok /\ c.op = "deleteFile" THEN storage \ {c.id}
                  ELSE storage
    /\ IF req[r].pc # c.grp THEN Step(r, q)
       ELSE IF ~c.ok /\ ~c.guarded THEN Step(r, Caught(q, "Error"))
       ELSE IF c.op = "findById" /\ ~found THEN Step(r, Caught(q, "BadRequest"))
       ELSE IF \E d \in q.flight : d.grp = c.grp THEN Step(r, q)
       ELSE Step(r, Resume(q))
    /\ UNCHANGED <<articles, nextArticle, nextTag, nextFile, budget>>

\* create, up to its first await: the caller checks, the parse of tags and
\* tagIds, and the persist of the skeleton article.
CreateBeginWith(r, inputs) ==
    /\ CanBegin(r)
    /\ \E inp \in inputs :
         LET q0 == Begin(r, "create", inp.user, "", inp)
             pt == parseTags(inp.tags)
             ids == parseTagIds(inp.tagIds)
             cmd == SkeletonCommand(inp)
             id == ArticleId(nextArticle)
         IN
         IF inp.user = NoUser THEN
             /\ Step(r, Finish(q0, "BadRequest", "Unauthorized"))
             /\ UNCHANGED <<articles, nextArticle>>
         ELSE IF inp.user.role \notin {"AUTHOR", "ADMIN", "EDITOR"} THEN
             /\ Step(r, Finish(q0, "BadRequest", "Forbidden"))
             /\ UNCHANGED <<articles, nextArticle>>
         ELSE IF pt.err # "none" THEN
             /\ Step(r, Finish(q0, "BadRequest", "BadRequest"))
             /\ UNCHANGED <<articles, nextArticle>>
         ELSE
             \E ok \in BOOLEAN :
                IF ok THEN
                    /\ articles' = articles @@ (id :> NewArticle(cmd))
                    /\ nextArticle' = nextArticle + 1
                    /\ Step(r, Logged([q0 EXCEPT !.pc = "c_lookup", !.art = id,
                                                 !.tagIds = ids, !.names = pt.names],
                                      <<Call("createArticle", id, cmd, TRUE)>>))
                ELSE
                    /\ Step(r, Finish(Logged(q0, <<Call("createArticle", "", cmd, FALSE)>>),
                                      "BadRequest", "Error"))
                    /\ UNCHANGED <<articles, nextArticle>>
    /\ budget' = budget - 1
    /\ UNCHANGED <<tagRepo, storage, nextTag, nextFile>>

CreateBegin(r) == CreateBeginWith(r, CreateInputs)

\* Promise.all over tagRepository.findById: every lookup is issued at once;
\* one that finds no tag, or throws, rejects the whole.  The log holds a
\* lookup as having returned a tag once it has (`found`: the lookups that
\* did).
LookupCalls(ids, found) ==
    [i \in 1..Len(ids) |-> Call("findById", ids[i], Undef, i \in found)]
CreateLookupTags_KeepFound(r) ==
    LET q == req[r] IN
    /\ q.op = "create" /\ q.pc = "c_lookup"
    /\ Step(r, [Logged(q, LookupCalls(q.tagIds,
                       {i \in 1..Len(q.tagIds) : q.tagIds[i] \in TagIdsOf(tagRepo)})) EXCEPT
                   !.pc = "c_newtags",
                   !.allTags = SelectNotIn(q.tagIds, SeqToSet(q.tagIds) \ TagIdsOf(tagRepo))])
    /\ UNCHANGED <<articles, tagRepo, storage, nextArticle, nextTag, nextFile, budget>>
CreateLookupTags(r) ==
    LET q == req[r] IN
    /\ q.op = "create" /\ q.pc = "c_lookup"
    /\ IF q.tagIds = <<>> THEN Step(r, [q EXCEPT !.pc = "c_newtags"])
       ELSE \E failed \in SUBSET (1..Len(q.tagIds)) :
              Step(r, [Logged(q, LookupCalls(q.tagIds, {})) EXCEPT
                  !.pc = "c_lookup_w", !.awaited = q.tagIds,
                  !.flight = @ \cup
                     {InFlight("c_lookup_w", i, "findById", q.tagIds[i], "",
                               i \notin failed, FALSE, Len(q.log) + i) :
                          i \in 1..Len(q.tagIds)}])
    /\ UNCHANGED <<articles, tagRepo, storage, nextArticle, nextTag, nextFile, budget>>

\* One tagRepository.findById of a create request completes.
CreateLookupLands(r) == \E c \in req[r].flight : c.op = "findById" /\ Completes(r, c)

\* Promise.all over tagRepository.create: one fresh ID per inline spec, every
\* creation is issued at once; the ones in `failed` will throw.  The request
\* then awaits the group.
NewTagIds_Shared(names, n) == [i \in 1..Len(names) |-> TagId(n)]
NewTagIds(names, n) == [i \in 1..Len(names) |-> TagId(n + i - 1)]
CreateCalls(names, n, failed) ==
    [i \in 1..Len(names) |-> Call("createTag", TagId(n + i - 1), Undef, i \notin failed)]
CreateNewTags(r) ==
    LET q == req[r] IN
    /\ q.op = "create" /\ q.pc = "c_newtags"
    /\ IF q.names = <<>> THEN
           /\ Step(r, [q EXCEPT !.pc = "c_tagupdate"])
           /\ UNCHANGED <<tagRepo, nextTag>>
       ELSE \E failed \in SUBSET (1..Len(q.names)) :
              LET ids == NewTagIds(q.names, nextTag)
                  q1 == Logged(q, CreateCalls(q.names, nextTag, failed))
              IN
              /\ nextTag' = nextTag + Len(q.names)
              /\ Step(r, [q1 EXCEPT
                     !.pc = "c_newtags_w", !.awaited = ids,
                     !.flight = @ \cup
                        {InFlight("c_newtags_w", i, "createTag", ids[i], q.names[i],
                                  i \notin failed, FALSE, Len(q.log) + i) :
                             i \in 1..Len(q.names)}])
              /\ UNCHANGED tagRepo
    /\ UNCHANGED <<articles, storage, nextArticle, nextFile, budget>>

\* One tagRepository.create of a create request completes.
CreateTagLands(r) == \E c \in req[r].flight : c.op = "createTag" /\ Completes(r, c)

\* One updateArticleUsecase.execute of the create flow: persisted when the
\* use-case succeeds, the compensation otherwise.
CreateUpdate(r, q, cmd, nextPc) ==
    \E ok \in {b \in BOOLEAN : b => q.art \in DOMAIN articles} :
       LET q1 == Logged(q, <<Call("updateArticle", q.art, cmd, ok)>>) IN
       IF ok THEN
           /\ articles' = [articles EXCEPT ![q.art] = ApplyUpdate(@, cmd)]
           /\ Step(r, [q1 EXCEPT !.pc = nextPc])
       ELSE
           /\ Step(r, ToCompensate(q1, "Error"))
           /\ UNCHANGED articles

CreateAttachTags(r) ==
    LET q == req[r] IN
    /\ q.op = "create" /\ q.pc = "c_tagupdate"
    /\ IF q.allTags = <<>> THEN
           /\ Step(r, [q EXCEPT !.pc = "c_featured"])
           /\ UNCHANGED articles
       ELSE CreateUpdate(r, q,
                UpdateCommand(q.art, NoFieldChange, Undef, Undef, Some(q.allTags),
                              Undef, UndefStr),
                "c_featured")
    /\ UNCHANGED <<tagRepo, storage, nextArticle, nextTag, nextFile, budget>>

CreateUploadFeatured_Deferred(r) ==
    LET q == req[r]
        f == q.inp.featuredMedia
    IN
    /\ q.op = "create" /\ q.pc = "c_featured"
    /\ IF f # <<>> /\ f[1] THEN
           /\ storage' = storage \cup {FileId(nextFile)}
           /\ nextFile' = nextFile + 1
           /\ Step(r, Logged([q EXCEPT !.pc = "c_images", !.idx = 1,
                                       !.upFeatured = FileId(nextFile)],
                      <<Call("uploadFile", FileId(nextFile), Some("featuredMedia"), TRUE)>>))
       ELSE
           /\ Step(r, [q EXCEPT !.pc = "c_images", !.idx = 1])
           /\ UNCHANGED <<storage, nextFile>>
    /\ UNCHANGED <<articles, tagRepo, nextArticle, nextTag, budget>>

\* fileUploader.uploadFile: a stored file under a fresh ID, or a failure.
CreateUploadFeatured(r) ==
    LET q == req[r]
        f == q.inp.featuredMedia
    IN
    /\ q.op = "create" /\ q.pc = "c_featured"
    /\ IF f # <<>> /\ f[1] THEN
           \E ok \in BOOLEAN :
              IF ok THEN
                  /\ storage' = storage \cup {FileId(nextFile)}
                  /\ nextFile' = nextFile + 1
                  /\ Step(r, Logged([q EXCEPT !.pc = "c_featupdate",
                                              !.upFeatured = FileId(nextFile)],
                                    <<Call("uploadFile", FileId(nextFile), Some("featuredMedia"), TRUE)>>))
              ELSE
                  /\ Step(r, ToCompensate(
                          Logged(q, <<Call("uploadFile", "", Some("featuredMedia"), FALSE)>>), "Error"))
                  /\ UNCHANGED <<storage, nextFile>>
       ELSE
           /\ Step(r, [q EXCEPT !.pc = "c_images", !.idx = 1])
           /\ UNCHANGED <<storage, nextFile>>
    /\ UNCHANGED <<articles, tagRepo, nextArticle, nextTag, budget>>

CreateAttachFeatured(r) ==
    LET q == req[r] IN
    /\ q.op = "create" /\ q.pc = "c_featupdate"
    /\ CreateUpdate(r, [q EXCEPT !.idx = 1],
            UpdateCommand(q.art, NoFieldChange, Undef, Undef, Undef, Undef, q.upFeatured),
            "c_images")
    /\ UNCHANGED <<tagRepo, storage, nextArticle, nextTag, nextFile, budget>>

\* The for loops over files.images and files.videos: one file per step, a
\* file without a buffer is passed over, an upload is awaited before the next.
CreateUploadLoop(r, pc, inField, field, nextPc) ==
    LET q == req[r]
        files == q.inp[inField]
    IN
    /\ q.op = "create" /\ q.pc = pc
    /\ IF q.idx > Len(files) THEN
           /\ Step(r, [q EXCEPT !.pc = nextPc, !.idx = 1])
           /\ UNCHANGED <<storage, nextFile>>
       ELSE IF ~files[q.idx] THEN
           /\ Step(r, [q EXCEPT !.idx = @ + 1])
           /\ UNCHANGED <<storage, nextFile>>
       ELSE
           \E ok \in BOOLEAN :
              IF ok THEN
                  /\ storage' = storage \cup {FileId(nextFile)}
                  /\ nextFile' = nextFile + 1
                  /\ Step(r, Logged([q EXCEPT !.idx = @ + 1,
                                              ![field] = Append(@, FileId(nextFile))],
                                    <<Call("uploadFile", FileId(nextFile), Some(inField), TRUE)>>))
              ELSE
                  /\ Step(r, ToCompensate(
                          Logged(q, <<Call("uploadFile", "", Some(inField), FALSE)>>), "Error"))
                  /\ UNCHANGED <<storage, nextFile>>
    /\ UNCHANGED <<articles, tagRepo, nextArticle, nextTag, budget>>

CreateUploadImages(r) == CreateUploadLoop(r, "c_images", "images", "upImages", "c_videos")
CreateUploadVideos(r) ==
    CreateUploadLoop(r, "c_videos", "videos", "upVideos", "c_mediaupdate")

CreateAttachMedia(r) ==
    LET q == req[r] IN
    /\ q.op = "create" /\ q.pc = "c_mediaupdate"
    /\ IF q.upImages = <<>> /\ q.upVideos = <<>> THEN
           /\ Step(r, [q EXCEPT !.pc = "c_refetch"])
           /\ UNCHANGED articles
       ELSE CreateUpdate(r, q,
                UpdateCommand(q.art, NoFieldChange, Some(q.upImages), Some(q.upVideos),
                              Undef, Undef, UndefStr),
                "c_refetch")
    /\ UNCHANGED <<tagRepo, storage, nextArticle, nextTag, nextFile, budget>>

\* The final getArticleByIdQuery.execute and mapToDisplayDto: the answer
\* carries the article as re-fetched.
CreateRefetch(r) ==
    LET q == req[r] IN
    /\ q.op = "create" /\ q.pc = "c_refetch"
    /\ \E ok \in {b \in BOOLEAN : b => q.art \in DOMAIN articles} :
          LET q1 == Logged(q, <<Call("getById", q.art, Undef, ok)>>) IN
          IF ok THEN Step(r, Finish([q1 EXCEPT !.data = {q.art}], "OK", "none"))
          ELSE Step(r, ToCompensate(q1, "Error"))
    /\ UNCHANGED <<articles, tagRepo, storage, nextArticle, nextTag, nextFile, budget>>

CreateCompensate_WithFiles(r) ==
    LET q == req[r]
        up == (IF q.upFeatured = UndefStr THEN <<>> ELSE <<q.upFeatured>>)
              \o q.upImages \o q.upVideos
    IN
    /\ q.op = "create" /\ q.pc = "c_comp"
    /\ Step(r, Finish(Logged(q, [i \in 1..Len(up) |-> Call("deleteFile", up[i], Undef, TRUE)]
                                 \o <<Call("deleteArticle", q.art, Undef, TRUE)>>),
                      "BadRequest", "Error"))
    /\ articles' = Without(articles, q.art)
    /\ storage' = storage \ SeqToSet(up)
    /\ UNCHANGED <<tagRepo, nextArticle, nextTag, nextFile, budget>>

CreateCompensate_Retried(r) ==
    LET q == req[r] IN
    /\ q.op = "create" /\ q.pc = "c_comp"
    /\ \E ok \in BOOLEAN :
          Step(r, Finish(Logged(q, IF ok THEN <<Call("deleteArticle", q.art, Undef, TRUE)>>
                                   ELSE <<Call("deleteArticle", q.art, Undef, FALSE),
                                          Call("deleteArticle", q.art, Undef, TRUE)>>),
                         "BadRequest", "Error"))
    /\ articles' = Without(articles, q.art)
    /\ UNCHANGED <<tagRepo, storage, nextArticle, nextTag, nextFile, budget>>

CreateCompensate_DropTags(r) ==
    LET q == req[r]
        made == {q.log[i].id : i \in {j \in 1..Len(q.log) : q.log[j].op = "createTag" /\ q.log[j].ok}}
    IN
    /\ q.op = "create" /\ q.pc = "c_comp"
    /\ \E ok \in BOOLEAN :
          /\ Step(r, Finish(Logged(q, <<Call("deleteArticle", q.art, Undef, ok)>>),
                            "BadRequest", "Error"))
          /\ articles' = IF ok THEN Without(articles, q.art) ELSE articles
    /\ tagRepo' = {t \in tagRepo : t.id \notin made}
    /\ UNCHANGED <<storage, nextArticle, nextTag, nextFile, budget>>

CreateCompensate_NoDelete(r) ==
    /\ req[r].op = "create" /\ req[r].pc = "c_comp"
    /\ Step(r, Finish(req[r], "BadRequest", "Error"))
    /\ UNCHANGED <<articles, tagRepo, storage, nextArticle, nextTag, nextFile, budget>>

\* The inner catch: deleteArticleUsecase.execute, not guarded, then
\* BadRequest; the outer catch turns a failure of the delete into BadRequest.
CreateCompensate(r) ==
    LET q == req[r] IN
    /\ q.op = "create" /\ q.pc = "c_comp"
    /\ \E ok \in BOOLEAN :
          /\ Step(r, Finish(Logged(q, <<Call("deleteArticle", q.art, Undef, ok)>>),
                            "BadRequest", "Error"))
          /\ articles' = IF ok THEN Without(articles, q.art) ELSE articles
    /\ UNCHANGED <<tagRepo, storage, nextArticle, nextTag, nextFile, budget>>

CreateSteps(r) ==
    \/ CreateLookupTags(r)
    \/ CreateLookupLands(r)
    \/ CreateNewTags(r)
    \/ CreateTagLands(r)
    \/ CreateAttachTags(r)
    \/ CreateUploadFeatured(r)
    \/ CreateAttachFeatured(r)
    \/ CreateUploadImages(r)
    \/ CreateUploadVideos(r)
    \/ CreateAttachMedia(r)
    \/ CreateRefetch(r)
    \/ CreateCompensate(r)
CreateNext(r) == CreateBegin(r) \/ CreateSteps(r)

\* ------------------------------------------------------------ update flow
\* The net command of an update: the images and videos kept (existing minus
\* removed) followed by the uploaded ones, the tags kept followed by the
\* incoming IDs the article does not have yet (as bare {id} references), the
\* request's scalar fields as they came, the new featured media if any.
MergeCommand_UploadsFirst(id, dto, existing, removedImageIds, removedVideoIds, removedTagIds, tagIds, uploadedImages, uploadedVideos, uploadedFeatured) ==
    UpdateCommand(id, dto,
        Some(uploadedImages \o SelectNotIn(existing.images, SeqToSet(removedImageIds))),
        Some(uploadedVideos \o SelectNotIn(existing.videos, SeqToSet(removedVideoIds))),
        Some(SelectNotIn(existing.tags, SeqToSet(removedTagIds))
             \o SelectNotIn(tagIds, SeqToSet(existing.tags))),
        Some(removedTagIds), uploadedFeatured)
MergeCommand_AllIncoming(id, dto, existing, removedImageIds, removedVideoIds, removedTagIds, tagIds, uploadedImages, uploadedVideos, uploadedFeatured) ==
    UpdateCommand(id, dto,
        Some(SelectNotIn(existing.images, SeqToSet(removedImageIds)) \o uploadedImages),
        Some(SelectNotIn(existing.videos, SeqToSet(removedVideoIds)) \o uploadedVideos),
        Some(SelectNotIn(existing.tags, SeqToSet(removedTagIds)) \o tagIds),
        Some(removedTagIds), uploadedFeatured)
MergeCommand_BlankFields(id, dto, existing, removedImageIds, removedVideoIds, removedTagIds, tagIds, uploadedImages, uploadedVideos, uploadedFeatured) ==
    UpdateCommand(id, [f \in ScalarFields |-> IF dto[f] = UndefStr THEN "" ELSE dto[f]],
        Some(SelectNotIn(existing.images, SeqToSet(removedImageIds)) \o uploadedImages),
        Some(SelectNotIn(existing.videos, SeqToSet(removedVideoIds)) \o uploadedVideos),
        Some(SelectNotIn(existing.tags, SeqToSet(removedTagIds))
             \o SelectNotIn(tagIds, SeqToSet(existing.tags))),
        Some(removedTagIds), uploadedFeatured)
MergeCommand(id, dto, existing, removedImageIds, removedVideoIds, removedTagIds, tagIds, uploadedImages, uploadedVideos, uploadedFeatured) ==
    LET remainingTags == SelectNotIn(existing.tags, SeqToSet(removedTagIds))
        newTags == SelectNotIn(tagIds, SeqToSet(existing.tags))
    IN UpdateCommand(id, dto,
           Some(SelectNotIn(existing.images, SeqToSet(removedImageIds)) \o uploadedImages),
           Some(SelectNotIn(existing.videos, SeqToSet(removedVideoIds)) \o uploadedVideos),
           Some(remainingTags \o newTags),
           Some(removedTagIds),
           uploadedFeatured)

UpdateBase ==
    [user |-> User("u1", "AUTHOR"), target |-> "a1", fields |-> NoFieldChange,
     removedImages |-> Undef, removedVideos |-> Undef, removedTags |-> Undef,
     tags |-> Undef, featuredMedia |-> <<>>, images |-> <<>>, videos |-> <<>>]
RemovedImageInputs ==
    {Undef,
     ArrField(<<"A", "B">>),
     StrField(<<"A", ",", Blank, "B">>),
     StrField(<<"[", Quote, "A", Quote, ",", Quote, "B", Quote, "]">>),
     StrField(<<"[", "A", ",", "B", "]">>),
     ArrField(<<"Y", "Z">>),
     ArrField(<<"M">>)}
UpdateInputs ==
    {[UpdateBase EXCEPT !.user = u, !.target = t] :
        u \in {NoUser} \cup Users, t \in {"a0", "a1", "a9"}}
    \cup {[UpdateBase EXCEPT !.fields = [NoFieldChange EXCEPT ![f] = "v2"],
                             !.user = u, !.featuredMedia = fm] :
        f \in ScalarFields, u \in {User("u1", "AUTHOR"), User("u3", "EDITOR")},
        fm \in {<<>>, <<TRUE>>}}
    \cup {[UpdateBase EXCEPT !.removedImages = ri, !.removedVideos = rv,
                             !.featuredMedia = fm, !.images = im, !.videos = vi] :
        ri \in RemovedImageInputs, rv \in {Undef, StrField(<<"V">>)},
        fm \in {<<>>, <<TRUE>>}, im \in {<<>>, <<TRUE>>, <<TRUE, TRUE>>},
        vi \in {<<>>, <<TRUE>>}}
    \cup {[UpdateBase EXCEPT !.featuredMedia = fm, !.images = im, !.videos = vi] :
        fm \in {<<>>, <<FALSE>>}, im \in {<<>>, <<TRUE, FALSE>>},
        vi \in {<<>>, <<FALSE>>}}
    \cup {[UpdateBase EXCEPT !.removedTags = rt, !.tags = tg, !.images = im] :
        rt \in {Undef, ArrField(<<"p">>), StrField(<<"q", ",", "u">>)},
        tg \in {Undef, ArrField(<<"q", "u">>), StrField(<<"p", ",", "n", ",", "n">>),
                StrField(<<"[", Quote, "u", Quote, "]">>)},
        im \in {<<>>, <<TRUE>>}}

\* update, up to the first await after the fetch: getArticleByIdQuery, the
\* caller checks, the parse of the list fields.  An ID that resolves to no
\* article makes the query return nothing or throw.
UpdateBeginWith(r, inputs) ==
    /\ CanBegin(r)
    /\ \E inp \in inputs, throws \in BOOLEAN :
         LET q0 == Begin(r, "update", inp.user, inp.target, inp)
             found == ~throws /\ inp.target \in DOMAIN articles
             q1 == Logged(q0, <<Call("getById", inp.target, Undef, found)>>)
             existing == articles[inp.target]
         IN
         /\ IF throws THEN
                Step(r, Finish(q1, "BadRequest",
                               IF inp.target \in DOMAIN articles THEN "Error" ELSE "NotFound"))
            ELSE IF inp.user = NoUser THEN
                Step(r, Finish(q1, "BadRequest", "Unauthorized"))
            ELSE IF inp.user.role = "AUTHOR" /\ ~found THEN
                Step(r, Finish(q1, "BadRequest", "TypeError"))
            ELSE IF inp.user.role = "AUTHOR" /\ existing.authorId # inp.user.id THEN
                Step(r, Finish(q1, "BadRequest", "Forbidden"))
            ELSE IF ~found THEN
                Step(r, Finish(q1, "BadRequest", "NotFound"))
            ELSE
                Step(r, [q1 EXCEPT
                    !.pc = "u_delete", !.art = inp.target, !.existing = existing,
                    !.removed = [images |-> parseArrayField(inp.removedImages),
                                 videos |-> parseArrayField(inp.removedVideos),
                                 tags |-> parseArrayField(inp.removedTags)],
                    !.tagIds = parseArrayField(inp.tags)])
    /\ budget' = budget - 1
    /\ UNCHANGED <<articles, tagRepo, storage, nextArticle, nextTag, nextFile>>

UpdateBegin(r) == UpdateBeginWith(r, UpdateInputs)

\* A group of deleteFile calls, each in its own try/catch: every call is
\* issued, the ones in `failed` throw and are logged only.
DeleteCalls(ids, failed) ==
    [i \in 1..Len(ids) |-> Call("deleteFile", ids[i], Undef, i \notin failed)]
Deleted(ids, failed) == {ids[i] : i \in (1..Len(ids)) \ failed}

UpdateDeleteRemoved_Unguarded(r) ==
    LET q == req[r]
        ids == q.removed.images \o q.removed.videos
    IN
    /\ q.op = "update" /\ q.pc = "u_delete"
    /\ \E failed \in SUBSET (1..Len(ids)) :
          /\ storage' = storage \ Deleted(ids, failed)
          /\ IF failed = {}
             THEN Step(r, Logged([q EXCEPT !.pc = "u_featured"], DeleteCalls(ids, failed)))
             ELSE Step(r, Finish(Logged(q, DeleteCalls(ids, failed)), "BadRequest", "Error"))
    /\ UNCHANGED <<articles, tagRepo, nextArticle, nextTag, nextFile, budget>>

\* Promise.all over the deleteFile calls of the removed images and videos,
\* each in its own try/catch: every call is issued at once, and the request
\* awaits them all; none rejects the await.
UpdateDeleteRemoved(r) ==
    LET q == req[r]
        ids == q.removed.images \o q.removed.videos
    IN
    /\ q.op = "update" /\ q.pc = "u_delete"
    /\ IF ids = <<>> THEN Step(r, [q EXCEPT !.pc = "u_featured"])
       ELSE \E failed \in SUBSET (1..Len(ids)) :
              Step(r, [Logged(q, DeleteCalls(ids, failed)) EXCEPT
                  !.pc = "u_delete_w",
                  !.flight = @ \cup
                     {InFlight("u_delete_w", i, "deleteFile", ids[i], "",
                               i \notin failed, TRUE, Len(q.log) + i) : i \in 1..Len(ids)}])
    /\ UNCHANGED <<articles, tagRepo, storage, nextArticle, nextTag, nextFile, budget>>

\* One deleteFile of the removed files completes.
UpdateDeleteLands(r) == \E c \in req[r].flight : c.op = "deleteFile" /\ Completes(r, c)

\* The catch of update: whatever was thrown becomes BadRequest.
UpdateUploadFeatured(r) ==
    LET q == req[r] IN
    /\ q.op = "update" /\ q.pc = "u_featured"
    /\ IF q.inp.featuredMedia # <<>> THEN
           \E ok \in BOOLEAN :
              IF ok THEN
                  /\ storage' = storage \cup {FileId(nextFile)}
                  /\ nextFile' = nextFile + 1
                  /\ Step(r, Logged([q EXCEPT !.pc = "u_delold",
                                              !.upFeatured = FileId(nextFile)],
                                    <<Call("uploadFile", FileId(nextFile), Some("featuredMedia"), TRUE)>>))
              ELSE
                  /\ Step(r, Finish(Logged(q, <<Call("uploadFile", "", Some("featuredMedia"), FALSE)>>),
                                    "BadRequest", "Error"))
                  /\ UNCHANGED <<storage, nextFile>>
       ELSE
           /\ Step(r, [q EXCEPT !.pc = "u_images"])
           /\ UNCHANGED <<storage, nextFile>>
    /\ UNCHANGED <<articles, tagRepo, nextArticle, nextTag, budget>>

UpdateDeleteOldFeatured(r) ==
    LET q == req[r]
        ids == IF q.existing.featured = UndefStr THEN <<>> ELSE <<q.existing.featured>>
    IN
    /\ q.op = "update" /\ q.pc = "u_delold"
    /\ \E failed \in SUBSET (1..Len(ids)) :
          /\ storage' = storage \ Deleted(ids, failed)
          /\ Step(r, Logged([q EXCEPT !.pc = "u_images"], DeleteCalls(ids, failed)))
    /\ UNCHANGED <<articles, tagRepo, nextArticle, nextTag, nextFile, budget>>

\* Promise.all over uploadFile for one media group: every upload is issued at
\* once, the ones in `failed` will throw, the others will be stored under
\* fresh IDs.  The request then awaits the group.
UploadIds(n, count, failed) ==
    [i \in 1..count |-> IF i \in failed THEN "" ELSE FileId(n + i - 1)]
UploadCalls(n, count, failed, kind) ==
    [i \in 1..count |-> Call("uploadFile", UploadIds(n, count, failed)[i], Some(kind),
                             i \notin failed)]
UpdateUploadGroup_Tolerant(r, pc, inField, field, nextPc) ==
    LET q == req[r]
        count == Len(q.inp[inField])
    IN
    /\ q.op = "update" /\ q.pc = pc
    /\ \E failed \in SUBSET (1..count) :
          LET ids == UploadIds(nextFile, count, failed)
              q1 == Logged(q, UploadCalls(nextFile, count, failed, inField))
          IN
          /\ storage' = storage \cup {ids[i] : i \in (1..count) \ failed}
          /\ nextFile' = nextFile + count
          /\ Step(r, [q1 EXCEPT !.pc = nextPc, ![field] = SelectNotIn(ids, {""})])
    /\ UNCHANGED <<articles, tagRepo, nextArticle, nextTag, budget>>
UpdateUploadGroup_OneByOne(r, pc, inField, field, nextPc) ==
    LET q == req[r]
        count == Len(q.inp[inField])
    IN
    /\ q.op = "update" /\ q.pc = pc
    /\ \E done \in 0..count :
          LET failed == IF done = count THEN {} ELSE {done + 1}
              issued == IF done = count THEN count ELSE done + 1
              ids == UploadIds(nextFile, issued, failed)
              q1 == Logged(q, UploadCalls(nextFile, issued, failed, inField))
          IN
          /\ storage' = storage \cup {ids[i] : i \in (1..issued) \ failed}
          /\ nextFile' = nextFile + issued
          /\ IF failed = {} THEN Step(r, [q1 EXCEPT !.pc = nextPc, ![field] = ids])
             ELSE Step(r, Finish(q1, "BadRequest", "Error"))
    /\ UNCHANGED <<articles, tagRepo, nextArticle, nextTag, budget>>
UpdateUploadGroup(r, pc, inField, field, nextPc) ==
    LET q == req[r]
        count == Len(q.inp[inField])
    IN
    /\ q.op = "update" /\ q.pc = pc
    /\ IF count = 0 THEN
           /\ Step(r, [q EXCEPT !.pc = nextPc, ![field] = <<>>])
           /\ UNCHANGED nextFile
       ELSE \E failed \in SUBSET (1..count) :
              LET ids == UploadIds(nextFile, count, failed)
                  q1 == Logged(q, UploadCalls(nextFile, count, failed, inField))
                  wait == pc \o "_w"
              IN
              /\ nextFile' = nextFile + count
              /\ Step(r, [q1 EXCEPT
                     !.pc = wait, !.awaited = ids,
                     !.flight = @ \cup
                        {InFlight(wait, i, "uploadFile", ids[i], "",
                                  i \notin failed, FALSE, Len(q.log) + i) : i \in 1..count}])
    /\ UNCHANGED <<articles, tagRepo, storage, nextArticle, nextTag, budget>>
UpdateUploadImages(r) == UpdateUploadGroup(r, "u_images", "images", "upImages", "u_videos")
UpdateUploadVideos(r) == UpdateUploadGroup(r, "u_videos", "videos", "upVideos", "u_persist")

\* One uploadFile of a media group completes.
UpdateUploadLands(r) == \E c \in req[r].flight : c.op = "uploadFile" /\ Completes(r, c)

UpdatePersist_Remerged(r) ==
    LET q == req[r]
        cmd == MergeCommand(q.art, q.inp.fields, articles[q.art], q.removed.images,
                            q.removed.videos, q.removed.tags, q.tagIds,
                            q.upImages, q.upVideos, q.upFeatured)
    IN
    /\ q.op = "update" /\ q.pc = "u_persist"
    /\ q.art \in DOMAIN articles
    /\ articles' = [articles EXCEPT ![q.art] = ApplyUpdate(@, cmd)]
    /\ Step(r, [Logged(q, <<Call("updateArticle", q.art, cmd, TRUE)>>)
                   EXCEPT !.pc = "u_refetch"])
    /\ UNCHANGED <<tagRepo, storage, nextArticle, nextTag, nextFile, budget>>

UpdatePersist_AsCaller(r) ==
    LET q == req[r]
        cmd == MergeCommand(q.art, q.inp.fields, q.existing, q.removed.images,
                            q.removed.videos, q.removed.tags, q.tagIds,
                            q.upImages, q.upVideos, q.upFeatured)
    IN
    /\ q.op = "update" /\ q.pc = "u_persist"
    /\ q.art \in DOMAIN articles
    /\ articles' = [articles EXCEPT ![q.art] =
                       [ApplyUpdate(@, cmd) EXCEPT !.authorId = q.user.id,
                                                   !.authorEmail = q.user.email]]
    /\ Step(r, [Logged(q, <<Call("updateArticle", q.art, cmd, TRUE)>>)
                   EXCEPT !.pc = "u_refetch"])
    /\ UNCHANGED <<tagRepo, storage, nextArticle, nextTag, nextFile, budget>>

UpdatePersist(r) ==
    LET q == req[r]
        cmd == MergeCommand(q.art, q.inp.fields, q.existing, q.removed.images,
                            q.removed.videos, q.removed.tags, q.tagIds,
                            q.upImages, q.upVideos, q.upFeatured)
    IN
    /\ q.op = "update" /\ q.pc = "u_persist"
    /\ \E ok \in {b \in BOOLEAN : b => q.art \in DOMAIN articles} :
          LET q1 == Logged(q, <<Call("updateArticle", q.art, cmd, ok)>>) IN
          IF ok THEN
              /\ articles' = [articles EXCEPT ![q.art] = ApplyUpdate(@, cmd)]
              /\ Step(r, [q1 EXCEPT !.pc = "u_refetch"])
          ELSE
              /\ Step(r, Finish(q1, "BadRequest", "Error"))
              /\ UNCHANGED articles
    /\ UNCHANGED <<tagRepo, storage, nextArticle, nextTag, nextFile, budget>>

\* The final getArticleByIdQuery.execute: the answer carries the article as
\* re-fetched.
UpdateRefetch(r) ==
    LET q == req[r] IN
    /\ q.op = "update" /\ q.pc = "u_refetch"
    /\ \E ok \in {b \in BOOLEAN : b => q.art \in DOMAIN articles} :
          LET q1 == Logged(q, <<Call("getById", q.art, Undef, ok)>>) IN
          IF ok THEN Step(r, Finish([q1 EXCEPT !.data = {q.art}], "OK", "none"))
          ELSE Step(r, Finish(q1, "BadRequest", "Error"))
    /\ UNCHANGED <<articles, tagRepo, storage, nextArticle, nextTag, nextFile, budget>>

UpdateSteps(r) ==
    \/ UpdateDeleteRemoved(r)
    \/ UpdateDeleteLands(r)
    \/ UpdateUploadFeatured(r)
    \/ UpdateDeleteOldFeatured(r)
    \/ UpdateUploadImages(r)
    \/ UpdateUploadVideos(r)
    \/ UpdateUploadLands(r)
    \/ UpdatePersist(r)
    \/ UpdateRefetch(r)
UpdateNext(r) == UpdateBegin(r) \/ UpdateSteps(r)

\* ------------------------------------------------------------ delete flow
DeleteInputs == [user : {NoUser} \cup Users, target : {"a0", "a1", "a9"}]

FilesToDelete_AnyStatus(a) ==
    (IF a.featured = UndefStr THEN <<>> ELSE <<a.featured>>) \o a.images \o a.videos
\* The files of a draft article, in the order delete removes them.
FilesToDelete(a) ==
    IF a.status = "draft"
    THEN (IF a.featured = UndefStr THEN <<>> ELSE <<a.featured>>) \o a.images \o a.videos
    ELSE <<>>

\* delete, up to its first deleteFile: the caller checks and the fetch.  Only
\* a NotFoundException leaves the catch as it is; anything else becomes an
\* HttpException with status 500.
DeleteBegin(r) ==
    /\ CanBegin(r)
    /\ \E inp \in DeleteInputs, throws \in {"none", "NotFound", "Error"} :
         LET q0 == Begin(r, "delete", inp.user, inp.target, inp)
             found == throws = "none" /\ inp.target \in DOMAIN articles
             q1 == Logged(q0, <<Call("getById", inp.target, Undef, found)>>)
         IN
         IF inp.user = NoUser THEN
             /\ throws = "none"
             /\ Step(r, Finish(q0, "InternalServerError", "Unauthorized"))
         ELSE IF inp.user.role \notin {"ADMIN", "EDITOR"} THEN
             /\ throws = "none"
             /\ Step(r, Finish(q0, "InternalServerError", "Forbidden"))
         ELSE
             /\ (throws = "NotFound") => inp.target \notin DOMAIN articles
             /\ IF throws = "NotFound" THEN Step(r, Finish(q1, "NotFound", "NotFound"))
                ELSE IF throws = "Error" THEN
                    Step(r, Finish(q1, "InternalServerError", "Error"))
                ELSE IF ~found THEN Step(r, Finish(q1, "NotFound", "NotFound"))
                ELSE Step(r, [q1 EXCEPT !.pc = "d_files", !.art = inp.target,
                                        !.existing = articles[inp.target],
                                        !.todo = FilesToDelete(articles[inp.target])])
    /\ budget' = budget - 1
    /\ UNCHANGED <<articles, tagRepo, storage, nextArticle, nextTag, nextFile>>

\* One deleteFile of the delete flow, in its own try/catch.
DeleteFiles(r) ==
    LET q == req[r] IN
    /\ q.op = "delete" /\ q.pc = "d_files"
    /\ IF q.todo = <<>> THEN
           /\ Step(r, [q EXCEPT !.pc = "d_article"])
           /\ UNCHANGED storage
       ELSE \E ok \in BOOLEAN :
              /\ storage' = IF ok THEN storage \ {Head(q.todo)} ELSE storage
              /\ Step(r, Logged([q EXCEPT !.todo = Tail(@)],
                                <<Call("deleteFile", Head(q.todo), Undef, ok)>>))
    /\ UNCHANGED <<articles, tagRepo, nextArticle, nextTag, nextFile, budget>>

DeleteArticle(r) ==
    LET q == req[r] IN
    /\ q.op = "delete" /\ q.pc = "d_article"
    /\ \E ok \in BOOLEAN :
          LET q1 == Logged(q, <<Call("deleteArticle", q.art, Undef, ok)>>) IN
          IF ok THEN
              /\ articles' = Without(articles, q.art)
              /\ Step(r, Finish(q1, "OK", "none"))
          ELSE
              /\ Step(r, Finish(q1, "InternalServerError", "Error"))
              /\ UNCHANGED articles
    /\ UNCHANGED <<tagRepo, storage, nextArticle, nextTag, nextFile, budget>>

DeleteNext(r) ==
    \/ DeleteBegin(r)
    \/ DeleteFiles(r)
    \/ DeleteArticle(r)

\* ------------------------------------------- the single-call endpoints
\* The caller check every handler starts with.
CallerCheck(user, roles) ==
    IF user = NoUser THEN "Unauthorized"
    ELSE IF user.role \notin roles THEN "Forbidden"
    ELSE "ok"
AnyRole == {"AUTHOR", "EDITOR", "ADMIN"}
Editors == {"EDITOR", "ADMIN"}
Targets == {"a0", "a1", "a2", "a9"}
TargetInputs == [user : {NoUser} \cup Users, target : Targets]

\* A handler made of the caller check and one use-case call ends here.
Respond(r, q) ==
    /\ Step(r, q)
    /\ budget' = budget - 1

\* list: an AUTHOR is held to their own articles, in the filter and again in
\* the data the use-case returned.
ListInputs == [user : {NoUser} \cup Users, authorId : {UndefStr, "u1", "u2"}]
List_Unfiltered(r) ==
    /\ CanBegin(r)
    /\ \E inp \in ListInputs, returned \in SUBSET DOMAIN articles :
         LET q0 == Begin(r, "list", inp.user, "", inp)
             q1 == Logged(q0, <<Call("listArticles", inp.authorId, Some(returned), TRUE)>>)
         IN
         IF inp.user = NoUser THEN
             /\ returned = {}
             /\ Respond(r, Finish(q0, "Unauthorized", "Unauthorized"))
         ELSE Respond(r, Finish([q1 EXCEPT !.data = returned], "OK", "none"))
    /\ UNCHANGED <<articles, tagRepo, storage, nextArticle, nextTag, nextFile>>
List(r) ==
    /\ CanBegin(r)
    /\ \E inp \in ListInputs, throws \in {"none", "BadRequest", "Error"},
          returned \in SUBSET DOMAIN articles :
         LET q0 == Begin(r, "list", inp.user, "", inp)
             filter == IF inp.user.role = "AUTHOR" THEN inp.user.id ELSE inp.authorId
             q1 == Logged(q0, <<Call("listArticles", filter,
                         IF throws = "none" THEN Some(returned) ELSE Undef,
                         throws = "none")>>)
         IN
         IF inp.user = NoUser THEN
             /\ throws = "none" /\ returned = {}
             /\ Respond(r, Finish(q0, "Unauthorized", "Unauthorized"))
         ELSE IF /\ inp.user.role = "AUTHOR" /\ inp.authorId # UndefStr
                 /\ inp.authorId # inp.user.id THEN
             /\ throws = "none" /\ returned = {}
             /\ Respond(r, Finish(q0, "Forbidden", "Forbidden"))
         ELSE IF throws = "BadRequest" THEN
             /\ returned = {}
             /\ Respond(r, Finish(q1, "BadRequest", "BadRequest"))
         ELSE IF throws = "Error" THEN
             /\ returned = {}
             /\ Respond(r, Finish(q1, "InternalServerError", "Error"))
         ELSE
             Respond(r, Finish([q1 EXCEPT !.data =
                 IF inp.user.role = "AUTHOR"
                 THEN {a \in returned : articles[a].authorId = inp.user.id}
                 ELSE returned], "OK", "none"))
    /\ UNCHANGED <<articles, tagRepo, storage, nextArticle, nextTag, nextFile>>

\* ArchiveArticlesUsecase: the listed articles that exist and are not archived
\* become archived; it throws when there is none.
Archivable(store, ids) ==
    {a \in SeqToSet(ids) \cap DOMAIN store : store[a].status # "archived"}
ArchiveInputs ==
    [user : {NoUser} \cup Users, ids : {<<"a1">>, <<"a0", "a1">>, <<"a9">>}]
ArchiveArticles(r) ==
    /\ CanBegin(r)
    /\ \E inp \in ArchiveInputs, up \in BOOLEAN :
         LET q0 == Begin(r, "archive", inp.user, "", inp)
             check == CallerCheck(inp.user, Editors)
             set == Archivable(articles, inp.ids)
             ok == up /\ set # {}
             q1 == Logged(q0, <<Call("archiveArticles", "", Some(inp.ids), ok)>>)
         IN
         IF check # "ok" THEN
             /\ up
             /\ Respond(r, Finish(q0, check, check))
             /\ UNCHANGED articles
         ELSE IF ~ok THEN
             /\ Respond(r, Finish(q1, "BadRequest", "Error"))
             /\ UNCHANGED articles
         ELSE
             /\ Respond(r, Finish([q1 EXCEPT !.data = set], "OK", "none"))
             /\ articles' = [a \in DOMAIN articles |->
                    IF a \in set THEN [articles[a] EXCEPT !.status = "archived"]
                    ELSE articles[a]]
    /\ UNCHANGED <<tagRepo, storage, nextArticle, nextTag, nextFile>>

SearchArticles(r) ==
    /\ CanBegin(r)
    /\ \E user \in {NoUser} \cup Users, up \in BOOLEAN :
         LET q0 == Begin(r, "search", user, "", Undef)
             check == CallerCheck(user, AnyRole)
             q1 == Logged(q0, <<Call("searchArticles", "", Undef, up)>>)
         IN
         IF check # "ok" THEN up /\ Respond(r, Finish(q0, check, check))
         ELSE IF ~up THEN Respond(r, Finish(q1, "InternalServerError", "Error"))
         ELSE Respond(r, Finish([q1 EXCEPT !.data = DOMAIN articles], "OK", "none"))
    /\ UNCHANGED <<articles, tagRepo, storage, nextArticle, nextTag, nextFile>>

\* The articles the answer of findById carries: the article itself and, when
\* it is published, the related articles the query returned with it.
Answered(target, a, related) ==
    {target} \cup (IF a.status = "published" THEN related ELSE {})

FindById_AnyAuthor(r) ==
    /\ CanBegin(r)
    /\ \E inp \in TargetInputs, related \in SUBSET DOMAIN articles :
         LET q0 == Begin(r, "findById", inp.user, inp.target, inp)
             found == inp.target \in DOMAIN articles
             q1 == Logged(q0, <<Call("getById", inp.target, Some(related), found)>>)
         IN
         /\ inp.target \notin related
         /\ (inp.user = NoUser \/ ~found) => related = {}
         /\ IF inp.user = NoUser THEN
                Respond(r, Finish(q0, "Unauthorized", "Unauthorized"))
            ELSE IF ~found THEN Respond(r, Finish(q1, "NotFound", "NotFound"))
            ELSE Respond(r, Finish([q1 EXCEPT
                    !.data = Answered(inp.target, articles[inp.target], related),
                    !.existing = articles[inp.target]], "OK", "none"))
    /\ UNCHANGED <<articles, tagRepo, storage, nextArticle, nextTag, nextFile>>

\* findById: the query returns the article with its related articles; an
\* AUTHOR gets only an article of their own; the related articles are in the
\* answer only when the article is published.
FindById(r) ==
    /\ CanBegin(r)
    /\ \E inp \in TargetInputs, throws \in {"none", "NotFound", "Error"},
          related \in SUBSET DOMAIN articles :
         LET q0 == Begin(r, "findById", inp.user, inp.target, inp)
             found == throws = "none" /\ inp.target \in DOMAIN articles
             q1 == Logged(q0, <<Call("getById", inp.target, Some(related), found)>>)
         IN
         /\ (throws = "NotFound") => inp.target \notin DOMAIN articles
         /\ inp.target \notin related
         /\ (inp.user = NoUser \/ ~found) => related = {}
         /\ IF inp.user = NoUser THEN
                throws = "none" /\ Respond(r, Finish(q0, "Unauthorized", "Unauthorized"))
            ELSE IF throws = "Error" THEN
                Respond(r, Finish(q1, "InternalServerError", "Error"))
            ELSE IF ~found THEN Respond(r, Finish(q1, "NotFound", "NotFound"))
            ELSE IF /\ inp.user.role = "AUTHOR"
                    /\ articles[inp.target].authorId # inp.user.id THEN
                Respond(r, Finish(q1, "Forbidden", "Forbidden"))
            ELSE Respond(r, Finish([q1 EXCEPT
                    !.data = Answered(inp.target, articles[inp.target], related),
                    !.existing = articles[inp.target]], "OK", "none"))
    /\ UNCHANGED <<articles, tagRepo, storage, nextArticle, nextTag, nextFile>>

\* The lifecycle use-cases: publish sets publishedAt when it is not set yet,
\* unpublish and restore lead back to draft and leave publishedAt alone.
Published(a) ==
    [a EXCEPT !.status = "published", !.publishedAt = IF @ = UndefStr THEN "day1" ELSE @]
Unpublished(a) == [a EXCEPT !.status = "draft"]
Restored_Republishable(a) == [a EXCEPT !.status = "draft", !.publishedAt = UndefStr]
Restored(a) == [a EXCEPT !.status = "draft"]
Transition(op, a) ==
    CASE op = "publish" -> Published(a)
      [] op = "unpublish" -> Unpublished(a)
      [] OTHER -> Restored(a)
Eligible(op, a) ==
    CASE op = "publish" -> a.status # "archived"
      [] op = "unpublish" -> a.status = "published"
      [] OTHER -> a.status = "archived"

\* publish, unpublish, restore: the caller check and the use-case; an error
\* whose message says "not found" becomes NotFound, any other is rethrown.
\* publish and unpublish answer with the article, restore with nothing.
Lifecycle(r, op) ==
    /\ CanBegin(r)
    /\ \E inp \in TargetInputs, up \in BOOLEAN :
         LET q0 == Begin(r, op, inp.user, inp.target, inp)
             check == CallerCheck(inp.user, Editors)
             exists == inp.target \in DOMAIN articles
             ok == up /\ exists /\ Eligible(op, articles[inp.target])
             q1 == Logged(q0, <<Call(op, inp.target, Undef, ok)>>)
         IN
         IF check # "ok" THEN
             /\ up
             /\ Respond(r, Finish(q0, check, check))
             /\ UNCHANGED articles
         ELSE IF ~exists THEN
             /\ up
             /\ Respond(r, Finish(q1, "NotFound", "NotFound"))
             /\ UNCHANGED articles
         ELSE IF ~ok THEN
             /\ Respond(r, Finish(q1, "InternalServerError", "Error"))
             /\ UNCHANGED articles
         ELSE
             /\ Respond(r, Finish([q1 EXCEPT !.data = IF op = "restore" THEN {}
                                                      ELSE {inp.target}],
                                   "OK", "none"))
             /\ articles' = [articles EXCEPT ![inp.target] = Transition(op, @)]
    /\ UNCHANGED <<tagRepo, storage, nextArticle, nextTag, nextFile>>
Publish(r) == Lifecycle(r, "publish")
Unpublish(r) == Lifecycle(r, "unpublish")
Restore(r) == Lifecycle(r, "restore")

\* removeTag: any role may call it; the use-case drops the association.
RemoveTagInputs == [user : {NoUser} \cup Users, target : Targets, tagId : {"p", "u"}]
RemoveTag_LateCheck(r) ==
    /\ CanBegin(r)
    /\ \E inp \in RemoveTagInputs :
         LET q0 == Begin(r, "removeTag", inp.user, inp.target, inp)
             check == CallerCheck(inp.user, AnyRole)
             q1 == Logged(q0, <<Call("removeTag", inp.target, Some(<<inp.tagId>>), TRUE)>>)
         IN
         /\ inp.target \in DOMAIN articles
         /\ Respond(r, Finish(q1, IF check = "ok" THEN "OK" ELSE check,
                                  IF check = "ok" THEN "none" ELSE check))
         /\ articles' = [articles EXCEPT ![inp.target].tags = SelectNotIn(@, {inp.tagId})]
    /\ UNCHANGED <<tagRepo, storage, nextArticle, nextTag, nextFile>>
RemoveTag(r) ==
    /\ CanBegin(r)
    /\ \E inp \in RemoveTagInputs, up \in BOOLEAN :
         LET q0 == Begin(r, "removeTag", inp.user, inp.target, inp)
             check == CallerCheck(inp.user, AnyRole)
             exists == inp.target \in DOMAIN articles
             q1 == Logged(q0, <<Call("removeTag", inp.target, Some(<<inp.tagId>>),
                                     up /\ exists)>>)
         IN
         IF check # "ok" THEN
             /\ up
             /\ Respond(r, Finish(q0, check, check))
             /\ UNCHANGED articles
         ELSE IF ~exists THEN
             /\ up
             /\ Respond(r, Finish(q1, "NotFound", "NotFound"))
             /\ UNCHANGED articles
         ELSE IF ~up THEN
             /\ Respond(r, Finish(q1, "InternalServerError", "Error"))
             /\ UNCHANGED articles
         ELSE
             /\ Respond(r, Finish(q1, "OK", "none"))
             /\ articles' = [articles EXCEPT ![inp.target].tags =
                                SelectNotIn(@, {inp.tagId})]
    /\ UNCHANGED <<tagRepo, storage, nextArticle, nextTag, nextFile>>

\* assignTags: whatever is thrown leaves as BadRequest.
AssignTagsInputs ==
    [user : {NoUser} \cup Users, target : Targets, tagIds : {<<"q">>, <<"u">>}]
AssignTags(r) ==
    /\ CanBegin(r)
    /\ \E inp \in AssignTagsInputs, up \in BOOLEAN :
         LET q0 == Begin(r, "assignTags", inp.user, inp.target, inp)
             check == CallerCheck(inp.user, AnyRole)
             ok == /\ up /\ inp.target \in DOMAIN articles
                   /\ SeqToSet(inp.tagIds) \subseteq TagIdsOf(tagRepo)
             q1 == Logged(q0, <<Call("assignTags", inp.target, Some(inp.tagIds), ok)>>)
         IN
         IF check # "ok" THEN
             /\ up
             /\ Respond(r, Finish(q0, "BadRequest", check))
             /\ UNCHANGED articles
         ELSE IF ~ok THEN
             /\ Respond(r, Finish(q1, "BadRequest", "Error"))
             /\ UNCHANGED articles
         ELSE
             /\ Respond(r, Finish(q1, "OK", "none"))
             /\ articles' = [articles EXCEPT ![inp.target].tags =
                                @ \o SelectNotIn(inp.tagIds, SeqToSet(@))]
    /\ UNCHANGED <<tagRepo, storage, nextArticle, nextTag, nextFile>>

\* --------------------------------------------------------- specifications
InitStore(statuses, featureds) ==
    /\ \E st \in statuses, fm \in featureds :
          articles = ("a0" :> OtherArticle) @@ ("a1" :> OwnArticle(st, fm))
    /\ tagRepo = OldTags
    /\ storage = OldFiles
    /\ nextArticle = 2
    /\ nextTag = 1
    /\ nextFile = 1
    /\ budget = MaxRequests
    /\ req = [r \in Slots |-> Idle]

InitCreate == InitStore({"draft"}, {"M"})
NextCreate == \E r \in Slots : CreateNext(r)
SpecCreate == InitCreate /\ [][NextCreate]_vars

InitUpdate == InitStore({"draft", "published"}, {"M", UndefStr})
NextUpdate == \E r \in Slots : UpdateNext(r)
SpecUpdate == InitUpdate /\ [][NextUpdate]_vars

InitDelete == InitStore({"draft", "published", "archived"}, {"M", UndefStr})
NextDelete == \E r \in Slots : DeleteNext(r)
SpecDelete == InitDelete /\ [][NextDelete]_vars

\* Every endpoint of the controller.
Init == InitStore({"draft", "published", "archived"}, {"M", UndefStr})
Next ==
    \E r \in Slots :
        \/ CreateNext(r)
        \/ UpdateNext(r)
        \/ DeleteNext(r)
        \/ List(r)
        \/ ArchiveArticles(r)
        \/ SearchArticles(r)
        \/ FindById(r)
        \/ Publish(r)
        \/ Unpublish(r)
        \/ Restore(r)
        \/ RemoveTag(r)
        \/ AssignTags(r)
Spec == Init /\ [][Next]_vars

\* The lifecycle endpoints alone, on a store whose articles are all published.
LifecycleStore == ("a0" :> OtherArticle) @@ ("a1" :> OwnArticle("published", "M"))
InitLifecycle ==
    /\ articles = LifecycleStore
    /\ tagRepo = OldTags
    /\ storage = OldFiles
    /\ nextArticle = 2
    /\ nextTag = 1
    /\ nextFile = 1
    /\ budget = MaxTransitions
    /\ req = [r \in Slots |-> Idle]
NextLifecycle ==
    \E r \in Slots :
        \/ ArchiveArticles(r)
        \/ Publish(r)
        \/ Unpublish(r)
        \/ Restore(r)
SpecLifecycle == InitLifecycle /\ [][NextLifecycle]_vars

\* Requests in parallel: two slots, each with a request whose steps interleave
\* with the steps of the other; a create, updates of article a1, and reads.
Parallel == {1, 2}
ParallelCreateInputs ==
    {[CreateBase EXCEPT !.user = User("u3", "EDITOR"), !.status = "published",
                        !.tags = StrField(<<"{x}">>), !.tagIds = ArrField(<<"p">>),
                        !.featuredMedia = <<TRUE>>,
                        !.images = <<TRUE>>]}
ParallelUpdateInputs ==
    {[UpdateBase EXCEPT !.user = User("u3", "EDITOR"), !.images = <<TRUE>>],
     [UpdateBase EXCEPT !.user = User("u3", "EDITOR"), !.featuredMedia = <<TRUE>>],
     [UpdateBase EXCEPT !.user = User("u3", "EDITOR"),
                        !.removedImages = ArrField(<<"A">>)]}
InitParallel ==
    /\ articles = ("a0" :> OtherArticle) @@ ("a1" :> OwnArticle("draft", "M"))
    /\ tagRepo = OldTags
    /\ storage = OldFiles
    /\ nextArticle = 2
    /\ nextTag = 1
    /\ nextFile = 1
    /\ budget = MaxParallel
    /\ req = [r \in Parallel |-> Idle]
NextParallel ==
    \E r \in Parallel :
        \/ CreateBeginWith(r, ParallelCreateInputs)
        \/ CreateSteps(r)
        \/ UpdateBeginWith(r, ParallelUpdateInputs)
        \/ UpdateSteps(r)
        \/ FindById(r)
SpecParallel == InitParallel /\ [][NextParallel]_vars

\* ================================================================= claims
Done(r, op) == req[r].op = op /\ req[r].pc = "done"
LastCall(q) == q.log[Len(q.log)]
RECURSIVE CallsOf(_, _)
CallsOf(log, ops) ==
    IF log = <<>> THEN <<>>
    ELSE (IF Head(log).op \in ops THEN <<Head(log)>> ELSE <<>>) \o CallsOf(Tail(log), ops)
RECURSIVE IdsOf(_)
IdsOf(calls) == IF calls = <<>> THEN <<>> ELSE <<Head(calls).id>> \o IdsOf(Tail(calls))
SomeCallFailed(q) == \E i \in 1..Len(q.log) : ~q.log[i].ok
\* A create request that got as far as persisting its skeleton.
PastSkeleton(r) == Done(r, "create") /\ req[r].art # ""

\* C1 as stated: once the skeleton of a create request is persisted, a failure
\* of any later step ends in BadRequest with the skeleton deleted, so that no
\* article with that ID is retrievable afterwards.
C1_Original ==
    \A r \in Slots :
        (PastSkeleton(r) /\ req[r].result # "OK") =>
            /\ req[r].result = "BadRequest"
            /\ req[r].art \notin DOMAIN articles

\* C1, amended: once the skeleton of a create request is persisted, the request
\* fails exactly when a later step fails; then the compensating delete of the
\* skeleton is the last call made before BadRequest is surfaced, it is made
\* once, and when that delete succeeds the article is no longer retrievable.
C1_Compensation ==
    \A r \in Slots :
        PastSkeleton(r) =>
            LET q == req[r]
                steps == SubSeq(q.log, 2, Len(q.log))
                failedAt == {i \in 2..Len(q.log) : ~q.log[i].ok /\ q.log[i].op # "deleteArticle"}
            IN
            /\ (q.result # "OK") = (failedAt # {})
            /\ failedAt # {} =>
                /\ q.result = "BadRequest"
                /\ LastCall(q).op = "deleteArticle" /\ LastCall(q).id = q.art
                /\ Len(CallsOf(q.log, {"deleteArticle"})) = 1
                /\ \A i \in failedAt : i < Len(q.log)
                /\ LastCall(q).ok => q.art \notin DOMAIN articles
            /\ failedAt = {} => CallsOf(q.log, {"deleteArticle"}) = <<>>

\* An image upload fails after an earlier image of the batch was uploaded; the
\* skeleton is deleted and BadRequest surfaced.
C1_Witness ==
    \E r \in Slots :
        /\ PastSkeleton(r) /\ req[r].result = "BadRequest"
        /\ \E i \in 1..(Len(req[r].log) - 2) :
              /\ req[r].log[i].op = "uploadFile" /\ req[r].log[i].ok
              /\ req[r].log[i].cmd = Some("images")
              /\ req[r].log[i + 1].op = "uploadFile" /\ ~req[r].log[i + 1].ok
              /\ req[r].log[i + 1].cmd = Some("images")
        /\ LastCall(req[r]).op = "deleteArticle" /\ LastCall(req[r]).ok
        /\ req[r].art \notin DOMAIN articles

\* C2 as stated: in a successful create every upload of the request has
\* completed before any article update is issued (skeleton, tags, uploads,
\* one enriched persist, re-fetch).
C2_Original ==
    \A r \in Slots :
        (Done(r, "create") /\ req[r].result = "OK") =>
            \A i, j \in 1..Len(req[r].log) :
                (req[r].log[i].op = "updateArticle" /\ req[r].log[j].op = "uploadFile")
                    => j < i

\* The place of a call in the create sequence.
CreatePhase(e) ==
    CASE e.op = "createArticle" -> 1
      [] e.op = "findById" -> 2
      [] e.op = "createTag" -> 3
      [] e.op = "updateArticle" /\ e.cmd.tags # Undef -> 4
      [] e.op = "uploadFile" /\ e.cmd = Some("featuredMedia") -> 5
      [] e.op = "updateArticle" /\ e.cmd.featured # UndefStr -> 6
      [] e.op = "uploadFile" /\ e.cmd = Some("images") -> 7
      [] e.op = "uploadFile" /\ e.cmd = Some("videos") -> 8
      [] e.op = "updateArticle" /\ e.cmd.images # Undef -> 9
      [] e.op = "getById" -> 10
      [] OTHER -> 0
InPhase(log, n) == {i \in 1..Len(log) : CreatePhase(log[i]) = n}
RECURSIVE PhaseIds(_, _)
PhaseIds(log, phases) ==
    IF log = <<>> THEN <<>>
    ELSE (IF CreatePhase(Head(log)) \in phases THEN <<Head(log).id>> ELSE <<>>)
         \o PhaseIds(Tail(log), phases)

\* C2, amended: in a successful create the calls occur in this order: persist
\* the skeleton (no tags, no media) -> tag lookups -> tag creations -> an
\* article update attaching the resolved tags, when there are any -> the
\* featured upload and an article update attaching it, when a featured file
\* came -> image uploads -> video uploads -> one article update attaching the
\* uploaded images and videos, when there are any -> re-fetch by ID.  The tag
\* and featured-media updates are issued before the image and video uploads.
C2_CreateOrder ==
    \A r \in Slots :
        (Done(r, "create") /\ req[r].result = "OK") =>
            LET log == req[r].log IN
            /\ \A i \in 1..Len(log) : CreatePhase(log[i]) # 0
            /\ \A i, j \in 1..Len(log) : i < j => CreatePhase(log[i]) <= CreatePhase(log[j])
            /\ \A n \in {1, 4, 5, 6, 9, 10} : Cardinality(InPhase(log, n)) <= 1
            /\ CreatePhase(log[1]) = 1 /\ CreatePhase(log[Len(log)]) = 10
            /\ log[1].cmd.tags = <<>> /\ log[1].cmd.images = <<>>
            /\ log[1].cmd.videos = <<>> /\ log[1].cmd.featured = UndefStr
            /\ (InPhase(log, 4) # {}) = (InPhase(log, 2) \cup InPhase(log, 3) # {})
            /\ \A i \in InPhase(log, 4) : log[i].cmd.tags.v = PhaseIds(log, {2, 3})
            /\ (InPhase(log, 6) # {}) = (InPhase(log, 5) # {})
            /\ \A i \in InPhase(log, 6) : <<log[i].cmd.featured>> = PhaseIds(log, {5})
            /\ (InPhase(log, 9) # {}) = (InPhase(log, 7) \cup InPhase(log, 8) # {})
            /\ \A i \in InPhase(log, 9) :
                  /\ log[i].cmd.images.v = PhaseIds(log, {7})
                  /\ log[i].cmd.videos.v = PhaseIds(log, {8})

\* A successful create with tags, a featured file, images and a video: all
\* three article updates were issued.
C2_Witness ==
    \E r \in Slots :
        /\ Done(r, "create") /\ req[r].result = "OK"
        /\ \A n \in {2, 3, 4, 5, 6, 7, 9} : InPhase(req[r].log, n) # {}

\* C6 as stated: an existing-tag ID that resolves to no Tag fails the create
\* with no partial result: no Tag created, no tags attached, the skeleton
\* deleted, the failure propagated.
UnknownTagId(r) ==
    \E i \in 1..Len(req[r].tagIds) : req[r].tagIds[i] \notin TagIdsOf(tagRepo)
C6_Original ==
    \A r \in Slots :
        (PastSkeleton(r) /\ UnknownTagId(r)) =>
            /\ CallsOf(req[r].log, {"createTag", "updateArticle"}) = <<>>
            /\ req[r].art \notin DOMAIN articles
            /\ req[r].result = "BadRequest"

\* C6, amended: an existing-tag ID that resolves to no Tag fails the create
\* with no partial result: no Tag is created, no article update is issued (no
\* tags are attached), nothing is uploaded, the compensating delete of the
\* skeleton is issued and BadRequest is surfaced; the skeleton is gone when
\* that delete succeeds, and is left without tags and media when it fails.
C6_UnknownTagId ==
    \A r \in Slots :
        (PastSkeleton(r) /\ UnknownTagId(r)) =>
            LET q == req[r] IN
            /\ CallsOf(q.log, {"createTag", "updateArticle", "uploadFile"}) = <<>>
            /\ q.result = "BadRequest"
            /\ LastCall(q).op = "deleteArticle" /\ LastCall(q).id = q.art
            /\ LastCall(q).ok => q.art \notin DOMAIN articles
            /\ q.art \in DOMAIN articles =>
                  /\ articles[q.art].tags = <<>> /\ articles[q.art].images = <<>>
                  /\ articles[q.art].videos = <<>>

\* A create with inline tag specs and the unknown tag ID "u" has failed and
\* its skeleton is deleted.
C6_Witness ==
    \E r \in Slots :
        /\ PastSkeleton(r) /\ UnknownTagId(r)
        /\ req[r].names # <<>> /\ "u" \in SeqToSet(req[r].tagIds)
        /\ LastCall(req[r]).op = "deleteArticle" /\ LastCall(req[r]).ok
        /\ req[r].art \notin DOMAIN articles

\* C7: a create request whose inline tag specs include one without a name
\* (by a caller allowed to create) fails before anything is created: no call
\* to any collaborator is made (no skeleton, no Tag, no upload, no
\* compensating delete), and the response is the BadRequest of the check.
NamelessSpec(r) ==
    /\ req[r].inp.tags # Undef
    /\ "{}" \in SeqToSet(req[r].inp.tags.text)
C7_NamelessTagSpec ==
    \A r \in Slots :
        (Done(r, "create") /\ req[r].user # NoUser /\ NamelessSpec(r)) =>
            /\ req[r].log = <<>> /\ req[r].art = ""
            /\ req[r].result = "BadRequest" /\ req[r].thrown = "BadRequest"

C7_Witness ==
    \E r \in Slots :
        /\ Done(r, "create") /\ req[r].user # NoUser /\ NamelessSpec(r)
        /\ req[r].inp.featuredMedia # <<>> /\ req[r].inp.images # <<>>
        /\ req[r].result = "BadRequest"

\* An update request that got past its checks, and the command it sent.
PastChecks(r, op) == req[r].op = op /\ req[r].art # ""
Sent(r) == CallsOf(req[r].log, {"updateArticle"})
\* The elements of s that are not in set, in their order.
Kept(s, set) ==
    LET idx == {i \in 1..Len(s) : s[i] \notin set}
        nth(k) == CHOOSE i \in idx : Cardinality({j \in idx : j < i}) = k - 1
    IN [k \in 1..Cardinality(idx) |-> s[nth(k)]]
UploadedIds(log, kind) ==
    LET idx == {i \in 1..Len(log) : log[i].op = "uploadFile" /\ log[i].cmd = Some(kind)}
        nth(k) == CHOOSE i \in idx : Cardinality({j \in idx : j < i}) = k - 1
    IN [k \in 1..Cardinality(idx) |-> log[nth(k)].id]

\* C3: the image sequence an update sends to persistence is the existing
\* images without those whose ID is listed in removedImages, in their order,
\* followed by the newly uploaded images in upload order; likewise the
\* videos with removedVideos.
C3_MediaMerge ==
    \A r \in Slots :
        (PastChecks(r, "update") /\ Sent(r) # <<>>) =>
            LET q == req[r]
                cmd == Sent(r)[1].cmd
            IN
            /\ Len(Sent(r)) = 1
            /\ cmd.images.v = Kept(q.existing.images, SeqToSet(q.removed.images))
                                 \o UploadedIds(q.log, "images")
            /\ cmd.videos.v = Kept(q.existing.videos, SeqToSet(q.removed.videos))
                                 \o UploadedIds(q.log, "videos")

\* Existing images [A, B, C], removedImages "A, B" given as one string, one
\* new upload f1: the command carries exactly [C, f1].
C3_Witness ==
    \E r \in Slots :
        /\ PastChecks(r, "update") /\ Sent(r) # <<>>
        /\ req[r].existing.images = <<"A", "B", "C">>
        /\ req[r].inp.removedImages = StrField(<<"A", ",", Blank, "B">>)
        /\ Sent(r)[1].cmd.images.v = <<"C", "f1">>

\* C4: the tag IDs an update sends to persistence are the IDs of the existing
\* tags without those in removedTags, together with the IDs of the incoming
\* tags list the article does not have yet; no tag lookup is made, so an
\* incoming ID that matches no Tag is sent all the same.
C4_TagMerge ==
    \A r \in Slots :
        (PastChecks(r, "update") /\ Sent(r) # <<>>) =>
            LET q == req[r]
                cmd == Sent(r)[1].cmd
                had == SeqToSet(q.existing.tags)
            IN
            /\ SeqToSet(cmd.tags.v) =
                   (had \ SeqToSet(q.removed.tags)) \cup (SeqToSet(q.tagIds) \ had)
            /\ CallsOf(q.log, {"findById"}) = <<>>

\* Tags [p, q], removedTags [p], incoming "p,n,n": p is dropped and not added
\* back, and n, which is no Tag of the repository, is sent.
C4_Witness ==
    \E r \in Slots :
        /\ PastChecks(r, "update") /\ Sent(r) # <<>>
        /\ req[r].existing.tags = <<"p", "q">>
        /\ req[r].removed.tags = <<"p">> /\ "p" \in SeqToSet(req[r].tagIds)
        /\ "n" \notin TagIdsOf(tagRepo)
        /\ SeqToSet(Sent(r)[1].cmd.tags.v) = {"q", "n"}

\* C5: an update leaves every scalar field the request omits undefined in the
\* command, and once the command is persisted each such field has the value
\* it had, and the featured media is the old one unless a new file came; an
\* update with no fields, no files and no removal lists leaves the article
\* exactly as it was.
EmptyUpdate(inp) ==
    /\ inp.fields = NoFieldChange /\ inp.tags = Undef
    /\ inp.removedImages = Undef /\ inp.removedVideos = Undef /\ inp.removedTags = Undef
    /\ inp.featuredMedia = <<>> /\ inp.images = <<>> /\ inp.videos = <<>>
C5_PartialUpdate ==
    \A r \in Slots :
        (PastChecks(r, "update") /\ Sent(r) # <<>>) =>
            LET q == req[r]
                call == Sent(r)[1]
            IN
            /\ \A f \in ScalarFields :
                  q.inp.fields[f] = UndefStr => call.cmd.fields[f] = UndefStr
            /\ q.inp.featuredMedia = <<>> => call.cmd.featured = UndefStr
            /\ call.ok =>
                  /\ \A f \in ScalarFields :
                        articles[q.art].fields[f] =
                            IF q.inp.fields[f] = UndefStr THEN q.existing.fields[f]
                            ELSE q.inp.fields[f]
                  /\ q.inp.featuredMedia = <<>> =>
                        articles[q.art].featured = q.existing.featured
                  /\ EmptyUpdate(q.inp) => articles[q.art] = q.existing

\* An update that sets only the title was persisted: the title is the new
\* one, the other fields are the old ones.
C5_Witness ==
    \E r \in Slots :
        /\ Done(r, "update") /\ req[r].result = "OK"
        /\ req[r].inp.fields["title"] = "v2"
        /\ articles[req[r].art].fields["title"] = "v2"
        /\ articles[req[r].art].fields["content"] = "v0"
        /\ articles[req[r].art].featured = "M"

\* C8: in the update and delete flows a failing deleteFile changes nothing
\* but the file it was to delete: the deleteFile calls issued are the ones
\* the request asks for whatever their outcomes, the request fails only when
\* a call other than deleteFile fails, and the persistence step (article
\* update, article delete) is issued whenever the steps before it succeeded.
OtherCallFailed(q) ==
    \E i \in 1..Len(q.log) : ~q.log[i].ok /\ q.log[i].op # "deleteFile"
FeaturedUploaded(q) ==
    \E i \in 1..Len(q.log) :
        q.log[i].op = "uploadFile" /\ q.log[i].cmd = Some("featuredMedia") /\ q.log[i].ok
UploadFailed(q) == \E i \in 1..Len(q.log) : q.log[i].op = "uploadFile" /\ ~q.log[i].ok
C8_BestEffortDeletion ==
    \A r \in Slots :
        /\ (Done(r, "update") /\ req[r].art # "") =>
              LET q == req[r] IN
              /\ IdsOf(CallsOf(q.log, {"deleteFile"})) =
                     q.removed.images \o q.removed.videos \o
                     (IF FeaturedUploaded(q) /\ q.existing.featured # UndefStr
                      THEN <<q.existing.featured>> ELSE <<>>)
              /\ (q.result = "OK") = ~OtherCallFailed(q)
              /\ ~UploadFailed(q) => Sent(r) # <<>>
        /\ (Done(r, "delete") /\ req[r].art # "") =>
              LET q == req[r] IN
              /\ Len(CallsOf(q.log, {"deleteFile"})) = Len(FilesToDelete(q.existing))
              /\ LastCall(q).op = "deleteArticle"
              /\ (q.result = "OK") = LastCall(q).ok

\* The deleteFile of a removed image failed, the next deletion was issued all
\* the same, and the update was persisted and answered OK.
C8_Witness ==
    \E r \in Slots :
        /\ Done(r, "update") /\ req[r].result = "OK"
        /\ \E i \in 1..(Len(req[r].log) - 1) :
              /\ req[r].log[i].op = "deleteFile" /\ ~req[r].log[i].ok
              /\ req[r].log[i + 1].op = "deleteFile" /\ req[r].log[i + 1].ok
        /\ \E i \in 1..Len(req[r].log) :
              req[r].log[i].op = "updateArticle" /\ req[r].log[i].ok

\* C9: delete issues deleteFile for the featured media, every image and
\* every video of the article when its status at the fetch is draft, each
\* file whose deleteFile succeeds being gone from storage, and issues
\* deleteFile for no file when the article is published or archived; the
\* article delete follows in both cases.
C9_DraftOnlyCleanup ==
    \A r \in Slots :
        (Done(r, "delete") /\ req[r].art # "") =>
            LET q == req[r]
                a == q.existing
            IN
            /\ IdsOf(CallsOf(q.log, {"deleteFile"})) =
                   IF a.status = "draft"
                   THEN (IF a.featured = UndefStr THEN <<>> ELSE <<a.featured>>)
                        \o a.images \o a.videos
                   ELSE <<>>
            /\ \A i \in 1..Len(q.log) :
                  (q.log[i].op = "deleteFile" /\ q.log[i].ok) => q.log[i].id \notin storage
            /\ LastCall(q).op = "deleteArticle" /\ LastCall(q).id = q.art

\* A published article was deleted: its record is gone and its files are
\* still in storage.
C9_Witness ==
    \E r \in Slots :
        /\ Done(r, "delete") /\ req[r].result = "OK"
        /\ req[r].existing.status = "published" /\ req[r].existing.images # <<>>
        /\ req[r].art \notin DOMAIN articles
        /\ SeqToSet(req[r].existing.images) \subseteq storage

\* C10 as stated: on every endpoint a request rejected for a missing caller
\* identity ends in Unauthorized and one rejected for role or ownership ends
\* in Forbidden, never rewrapped.
C10_Original ==
    \A r \in Slots :
        (req[r].pc = "done" /\ req[r].thrown \in {"Unauthorized", "Forbidden"}) =>
            req[r].result = req[r].thrown

\* C11: findById of an existing article answers Forbidden, with no article
\* data, to an AUTHOR who is not the article's author; it answers the article
\* to the AUTHOR who is its author and to every EDITOR and ADMIN, together
\* with the related articles the query returned when the article is
\* published, and with nothing else.
Fetched(r) ==
    /\ req[r].log # <<>> /\ req[r].log[1].op = "getById" /\ req[r].log[1].ok
C11_AuthorOwnArticleOnly ==
    \A r \in Slots :
        (Done(r, "findById") /\ Fetched(r)) =>
            LET q == req[r]
                owner == articles[q.target].authorId
            IN
            IF q.user.role = "AUTHOR" /\ owner # q.user.id
            THEN q.result = "Forbidden" /\ q.data = {}
            ELSE /\ q.result = "OK" /\ q.target \in q.data
                 /\ q.data \ {q.target} =
                        IF articles[q.target].status = "published"
                        THEN q.log[1].cmd.v ELSE {}

\* AUTHOR u1 asked for the article of u2 and was refused.
C11_Witness ==
    \E r \in Slots :
        /\ Done(r, "findById") /\ Fetched(r)
        /\ req[r].user = User("u1", "AUTHOR") /\ req[r].target = "a0"
        /\ articles["a0"].authorId = "u2"
        /\ req[r].result = "Forbidden"

\* C12: the articles list answers to an AUTHOR are all of that AUTHOR,
\* whatever the list use-case returned, and an AUTHOR who asks for the
\* articles of another author gets Forbidden and the use-case is not called.
C12_AuthorListScope ==
    \A r \in Slots :
        (Done(r, "list") /\ req[r].user.role = "AUTHOR") =>
            LET q == req[r] IN
            /\ \A a \in q.data : articles[a].authorId = q.user.id
            /\ (q.result = "OK") => q.data = {a \in q.log[1].cmd.v :
                                                articles[a].authorId = q.user.id}
            /\ q.inp.authorId \notin {UndefStr, q.user.id} =>
                  q.result = "Forbidden" /\ q.log = <<>>

\* The use-case returned an article of u2 to AUTHOR u1 and the answer holds
\* only the article of u1.
C12_Witness ==
    \E r \in Slots :
        /\ Done(r, "list") /\ req[r].result = "OK"
        /\ req[r].user = User("u1", "AUTHOR")
        /\ req[r].log[1].cmd = Some({"a0", "a1"})
        /\ req[r].data = {"a1"}

\* C13: an article that was published, once archived and then restored
\* (unarchived), is a draft whose publishedAt is the value it had before the
\* archive; the archive itself leaves publishedAt as it was.
C13_ArchiveRoundTrip ==
    \A r \in Slots :
        /\ (Done(r, "restore") /\ req[r].result = "OK") =>
              /\ articles[req[r].target].status = "draft"
              /\ articles[req[r].target].publishedAt =
                     LifecycleStore[req[r].target].publishedAt
        /\ (Done(r, "archive") /\ req[r].result = "OK") =>
              \A a \in req[r].data :
                  /\ articles[a].status = "archived"
                  /\ articles[a].publishedAt = LifecycleStore[a].publishedAt

\* The published article a1 was archived and then restored, in two requests.
C13_Witness ==
    \E r \in Slots :
        /\ Done(r, "restore") /\ req[r].result = "OK" /\ req[r].target = "a1"
        /\ budget = MaxTransitions - 2
        /\ articles["a1"].status = "draft" /\ articles["a1"].publishedAt = "day0"

\* C14 as stated: the tag list a create or an update sends to persistence
\* holds no tag ID twice, whatever the tag-ID inputs.
NoRepeat(seq) == \A i, j \in 1..Len(seq) : seq[i] = seq[j] => i = j
C14_Original ==
    \A r \in Slots :
        req[r].op \in {"create", "update"} =>
            \A i \in 1..Len(req[r].log) :
                (req[r].log[i].op = "updateArticle" /\ req[r].log[i].cmd.tags # Undef)
                    => NoRepeat(req[r].log[i].cmd.tags.v)

\* A create that got inline tag specs and no existing tag IDs, and succeeded.
InlineOnly(r) ==
    /\ Done(r, "create") /\ req[r].result = "OK"
    /\ req[r].tagIds = <<>> /\ req[r].names # <<>>
TagsSent(r) == CallsOf(req[r].log, {"updateArticle"})[1].cmd.tags.v

\* C15 as stated: such a create attaches exactly one new Tag per unique inline
\* spec.
C15_Original ==
    \A r \in Slots :
        InlineOnly(r) => Len(TagsSent(r)) = Cardinality(SeqToSet(req[r].names))

\* C15, amended: such a create attaches exactly one new Tag per inline spec,
\* a repeated spec giving one Tag per occurrence; the Tags carry the names of
\* the specs in order, and their generated IDs differ from one another and
\* from the ID of every tag that existed before.
C15_OneTagPerSpec ==
    \A r \in Slots :
        InlineOnly(r) =>
            LET q == req[r]
                ids == TagsSent(r)
            IN
            /\ Len(ids) = Len(q.names)
            /\ NoRepeat(ids)
            /\ ids = IdsOf(CallsOf(q.log, {"createTag"}))
            /\ \A i \in 1..Len(ids) :
                  /\ ids[i] \notin TagIdsOf(OldTags)
                  /\ {t \in tagRepo : t.id = ids[i]} = {[id |-> ids[i], name |-> q.names[i]]}

\* The inline specs {x},{x}: two Tags named x with different IDs.
C15_Witness ==
    \E r \in Slots :
        /\ InlineOnly(r) /\ req[r].names = <<"x", "x">>
        /\ Len(TagsSent(r)) = 2 /\ TagsSent(r)[1] # TagsSent(r)[2]

\* C16: a create given the existing tag IDs [a, b] as an array and a create
\* given them as the string "a,b" make the same two lookups, of a then of b,
\* attach the same two tags when both exist, and fail alike, with BadRequest
\* and no tag created or attached, when one of them is unknown.
IdPairs == {<<a, b>> : a \in {"p", "q", "u"}, b \in {"p", "q", "u"}}
CommaText(ids) == StrField(<<ids[1], ",", ids[2]>>)
C16_TagIdForms ==
    \A r \in Slots : \A ids \in IdPairs :
        (/\ req[r].op = "create" /\ req[r].art # "" /\ req[r].pc # "c_lookup"
         /\ req[r].inp.tagIds \in {ArrField(ids), CommaText(ids)}) =>
            LET q == req[r]
                known == \A i \in 1..2 : ids[i] \in TagIdsOf(tagRepo)
                looked == CallsOf(q.log, {"findById"})
            IN
            /\ parseTagIds(ArrField(ids)) = parseTagIds(CommaText(ids))
            /\ IdsOf(looked) = ids
            /\ (\A i \in 1..2 : looked[i].ok) => SubSeq(q.allTags, 1, 2) = ids
            /\ ~known =>
                  /\ CallsOf(q.log, {"createTag", "updateArticle"}) = <<>>
                  /\ q.pc = "done" => q.result = "BadRequest"
            /\ (q.pc = "done" /\ q.result = "OK") => SubSeq(TagsSent(r), 1, 2) = ids

\* The string "p,q" led to the lookups of p and q and to a created article
\* with these two tags.
C16_Witness ==
    \E r \in Slots :
        /\ Done(r, "create") /\ req[r].result = "OK"
        /\ req[r].inp.tagIds = StrField(<<"p", ",", "q">>)
        /\ IdsOf(CallsOf(req[r].log, {"findById"})) = <<"p", "q">>
        /\ SubSeq(TagsSent(r), 1, 2) = <<"p", "q">>

\* C17 as stated: in create and in update a supplied file with no byte
\* payload is skipped: uploadFile is called only for the files that have one.
WithPayload(files) == {i \in 1..Len(files) : files[i]}
UploadsOf(q, kind) ==
    {i \in 1..Len(q.log) : q.log[i].op = "uploadFile" /\ q.log[i].cmd = Some(kind)}
C17_Original ==
    \A r \in Slots :
        (req[r].op \in {"create", "update"} /\ req[r].art # "") =>
            \A kind \in {"featuredMedia", "images", "videos"} :
                Cardinality(UploadsOf(req[r], kind))
                    <= Cardinality(WithPayload(req[r].inp[kind]))

\* C18 as stated: in create and in update the uploads of one media group are
\* all issued before any is awaited, so a request that issued one upload of
\* its images (videos) issued the upload of every image (video) it is to
\* upload, whichever of them failed.
ToUpload(q, kind) ==
    IF q.op = "create" THEN Cardinality(WithPayload(q.inp[kind])) ELSE Len(q.inp[kind])
WholeGroups(q) ==
    \A kind \in {"images", "videos"} :
        Cardinality(UploadsOf(q, kind)) \in {0, ToUpload(q, kind)}
C18_Original ==
    \A r \in Slots :
        (req[r].pc = "done" /\ req[r].op \in {"create", "update"} /\ req[r].art # "")
            => WholeGroups(req[r])

\* C18, amended: update issues the uploads of one media group together and
\* joins them, so every upload of a group is issued whichever of them fails,
\* the images group being joined before the videos group is started; create
\* uploads file after file, awaiting each upload before it starts the next,
\* so no upload is issued after one that failed.
C18_UploadGroups ==
    \A r \in Slots :
        (req[r].pc = "done" /\ req[r].art # "") =>
            LET q == req[r] IN
            /\ q.op = "update" =>
                  /\ WholeGroups(q)
                  /\ (\E i \in UploadsOf(q, "images") : ~q.log[i].ok)
                        => UploadsOf(q, "videos") = {}
            /\ q.op = "create" =>
                  \A i, j \in 1..Len(q.log) :
                      (q.log[i].op = "uploadFile" /\ ~q.log[i].ok /\ i < j)
                          => q.log[j].op # "uploadFile"

\* An update whose first image upload failed issued the second one all the
\* same and ended in BadRequest.
C18_Witness ==
    \E r \in Slots :
        /\ Done(r, "update") /\ req[r].result = "BadRequest"
        /\ \E i \in UploadsOf(req[r], "images") :
              /\ ~req[r].log[i].ok
              /\ i + 1 \in UploadsOf(req[r], "images") /\ req[r].log[i + 1].ok

\* C19: a create deletes no file: it issues no deleteFile call, and every
\* file it uploaded is in storage, also after a failure whose compensation
\* deleted the article record.
UploadedBy(q) ==
    {q.log[i].id : i \in {j \in 1..Len(q.log) : q.log[j].op = "uploadFile" /\ q.log[j].ok}}
C19_CreateKeepsFiles ==
    \A r \in Slots :
        req[r].op = "create" =>
            /\ CallsOf(req[r].log, {"deleteFile"}) = <<>>
            /\ UploadedBy(req[r]) \subseteq storage
            /\ OldFiles \subseteq storage

\* A create uploaded two files, then failed; the article record was deleted
\* and the two files are still in storage.
C19_Witness ==
    \E r \in Slots :
        /\ Done(r, "create") /\ req[r].result = "BadRequest" /\ req[r].art # ""
        /\ LastCall(req[r]).op = "deleteArticle" /\ LastCall(req[r]).ok
        /\ req[r].art \notin DOMAIN articles
        /\ Cardinality(UploadedBy(req[r])) >= 2
        /\ UploadedBy(req[r]) \subseteq storage

\* C20 as stated: an update whose article ID resolves to no article ends in
\* NotFound for a caller of any role, having deleted no file, uploaded
\* nothing and updated no article.
C20_Original ==
    \A r \in Slots :
        (/\ Done(r, "update") /\ req[r].user # NoUser
         /\ req[r].target \notin DOMAIN articles) =>
            /\ req[r].result = "NotFound"
            /\ CallsOf(req[r].log, {"deleteFile", "uploadFile", "updateArticle"}) = <<>>

\* C21: an article gets its authorId and authorEmail from the caller of the
\* create that persists it, and no step of any request changes them
\* afterwards.
C21_AuthorImmutable ==
    [][/\ \A a \in DOMAIN articles \cap DOMAIN articles' :
             /\ articles'[a].authorId = articles[a].authorId
             /\ articles'[a].authorEmail = articles[a].authorEmail
       /\ \A a \in DOMAIN articles' \ DOMAIN articles :
             \E r \in DOMAIN req :
                 /\ req'[r].op = "create" /\ req'[r].art = a
                 /\ articles'[a].authorId = req'[r].user.id
                 /\ articles'[a].authorEmail = req'[r].user.email]_vars

\* EDITOR u3 changed the title of the article of u1; its author is still u1.
C21_Witness ==
    \E r \in Slots :
        /\ Done(r, "update") /\ req[r].result = "OK"
        /\ req[r].user = User("u3", "EDITOR") /\ req[r].art = "a1"
        /\ articles["a1"].fields["title"] = "v2"
        /\ articles["a1"].authorId = "u1" /\ articles["a1"].authorEmail = "u1@mail"

\* C22: when the compensating delete of a failed create fails, it is not
\* tried again, the request ends in BadRequest, and the skeleton article is
\* still retrievable with the tags and the media the request had attached to
\* it before the failure.
FailedCompensation(r) ==
    /\ Done(r, "create") /\ req[r].art # ""
    /\ \E i \in 1..Len(req[r].log) :
          req[r].log[i].op = "deleteArticle" /\ ~req[r].log[i].ok
Attached(q) ==
    {i \in 1..Len(q.log) : q.log[i].op = "updateArticle" /\ q.log[i].ok}
C22_FailedCompensation ==
    \A r \in Slots :
        FailedCompensation(r) =>
            LET q == req[r] IN
            /\ q.result = "BadRequest"
            /\ Len(CallsOf(q.log, {"deleteArticle"})) = 1
            /\ q.art \in DOMAIN articles
            /\ articles[q.art].status = q.inp.status
            /\ articles[q.art].tags =
                   IF \E i \in Attached(q) : q.log[i].cmd.tags # Undef
                   THEN q.allTags ELSE <<>>
            /\ articles[q.art].featured =
                   IF \E i \in Attached(q) : q.log[i].cmd.featured # UndefStr
                   THEN q.upFeatured ELSE UndefStr
            /\ articles[q.art].images =
                   IF \E i \in Attached(q) : q.log[i].cmd.images # Undef
                   THEN q.upImages ELSE <<>>

\* An image upload failed after the tags and the featured media had been
\* attached; the compensating delete failed and the article is still there
\* with its tags and featured media.
C22_Witness ==
    \E r \in Slots :
        /\ FailedCompensation(r)
        /\ req[r].art \in DOMAIN articles
        /\ articles[req[r].art].tags # <<>>
        /\ articles[req[r].art].featured # UndefStr

\* C23: a request rejected for a missing caller identity, an insufficient
\* role or an ownership mismatch has made no mutating collaborator call: its
\* only call, if any, is the read of the article by update or findById.
Rejected(r) ==
    req[r].pc = "done" /\ req[r].thrown \in {"Unauthorized", "Forbidden"}
C23_RejectedTouchesNothing ==
    \A r \in Slots :
        Rejected(r) =>
            /\ \A i \in 1..Len(req[r].log) : req[r].log[i].op = "getById"
            /\ Len(req[r].log) <= 1
            /\ req[r].op \notin {"update", "findById"} => req[r].log = <<>>

\* AUTHOR u1 asked to update the article of u2: the article was read and
\* nothing else was done.
C23_Witness ==
    \E r \in Slots :
        /\ Rejected(r) /\ req[r].op = "update" /\ req[r].thrown = "Forbidden"
        /\ req[r].user = User("u1", "AUTHOR") /\ req[r].target = "a0"
        /\ IdsOf(req[r].log) = <<"a0">>
        /\ articles["a0"] = OtherArticle

\* The files an article refers to.
FilesOf(a) ==
    SeqToSet(a.images) \cup SeqToSet(a.videos)
        \cup (IF a.featured = UndefStr THEN {} ELSE {a.featured})

\* C24 as stated: in an update deleteFile is called for the existing
\* featured media only after the upload of a new featured file has
\* succeeded; never when no featured file came or its upload failed.
C24_Original ==
    \A r \in Slots :
        (req[r].op = "update" /\ req[r].art # "") =>
            \A i \in 1..Len(req[r].log) :
                (/\ req[r].log[i].op = "deleteFile"
                 /\ req[r].log[i].id = req[r].existing.featured) =>
                    \E j \in 1..(i - 1) :
                        /\ req[r].log[j].op = "uploadFile" /\ req[r].log[j].ok
                        /\ req[r].log[j].cmd = Some("featuredMedia")

\* C26 as stated: an update of article X calls deleteFile only for files
\* that belong to X, whatever removedImages and removedVideos list.
C26_Original ==
    \A r \in Slots :
        (req[r].op = "update" /\ req[r].art # "") =>
            \A i \in 1..Len(req[r].log) :
                req[r].log[i].op = "deleteFile" =>
                    req[r].log[i].id \in FilesOf(req[r].existing)

\* C27 as stated: every file a retrievable article refers to exists in
\* storage, also after a request that failed partway.
C27_Original ==
    \A a \in DOMAIN articles : FilesOf(articles[a]) \subseteq storage

\* C25: an update one of whose uploads failed does not invoke the article
\* update, so the stored article is as it was fetched, and ends in
\* BadRequest; no deleteFile is issued for a file the request uploaded, so
\* each such file is in storage as soon as its upload has completed.
Pending(q) == {c.id : c \in {d \in q.flight : d.ok}}
C25_FailedUploadNoPersist ==
    \A r \in Slots :
        (Done(r, "update") /\ req[r].art # "" /\ UploadFailed(req[r])) =>
            LET q == req[r] IN
            /\ Sent(r) = <<>>
            /\ q.result = "BadRequest"
            /\ articles[q.art] = q.existing
            /\ UploadedBy(q) \subseteq storage \cup Pending(q)
            /\ \A i \in 1..Len(q.log) :
                  q.log[i].op = "deleteFile" => q.log[i].id \notin UploadedBy(q)

\* Of two image uploads the second failed: no article update, BadRequest, and
\* the first uploaded file is in storage, every call having completed.
C25_Witness ==
    \E r \in Slots :
        /\ Done(r, "update") /\ req[r].art # "" /\ UploadFailed(req[r])
        /\ req[r].result = "BadRequest" /\ req[r].flight = {}
        /\ UploadedBy(req[r]) # {} /\ UploadedBy(req[r]) \subseteq storage
        /\ articles[req[r].art] = req[r].existing

\* C28 as stated: no update, removeTag or assignTags request of an AUTHOR
\* succeeds on, and so changes, an article whose author is someone else.
C28_Original ==
    \A r \in Slots :
        (/\ req[r].pc = "done" /\ req[r].op \in {"update", "removeTag", "assignTags"}
         /\ req[r].user.role = "AUTHOR" /\ req[r].target \in DOMAIN articles
         /\ articles[req[r].target].authorId # req[r].user.id) =>
            req[r].result # "OK"

\* C29 as stated: from the persist of the skeleton to the last article update
\* of a create, the article is retrievable under its ID with the status the
\* caller asked for and with no tags, no images, no videos and no featured
\* media.
BeforeAttach(r) ==
    req[r].op = "create" /\ req[r].pc \in {"c_lookup", "c_lookup_w", "c_newtags", "c_newtags_w", "c_tagupdate"}
BeforeFeatured(r) == req[r].op = "create" /\ req[r].pc \in {"c_featured", "c_featupdate"}
BeforeMedia(r) == req[r].op = "create" /\ req[r].pc \in {"c_images", "c_videos", "c_mediaupdate"}
BeforeLastUpdate(r) == BeforeAttach(r) \/ BeforeFeatured(r) \/ BeforeMedia(r)
C29_Original ==
    \A r \in Parallel :
        BeforeLastUpdate(r) =>
            /\ req[r].art \in DOMAIN articles
            /\ articles[req[r].art].status = req[r].inp.status
            /\ articles[req[r].art].tags = <<>> /\ articles[req[r].art].images = <<>>
            /\ articles[req[r].art].videos = <<>>
            /\ articles[req[r].art].featured = UndefStr

\* C29, amended: from the persist of the skeleton to the last article update
\* of a create, the article is retrievable under its ID with the status the
\* caller asked for and with no images and no videos; it has no tags and no
\* featured media until the tag update, the resolved tags from the tag
\* update on, and the uploaded featured media from the featured update on.
\* A reader in parallel gets the article as it is at that point.
C29_SkeletonVisible ==
    \A r \in Parallel :
        /\ BeforeLastUpdate(r) =>
              /\ req[r].art \in DOMAIN articles
              /\ articles[req[r].art].status = req[r].inp.status
              /\ articles[req[r].art].images = <<>>
              /\ articles[req[r].art].videos = <<>>
        /\ BeforeAttach(r) =>
              /\ articles[req[r].art] = NewArticle(
                     [SkeletonCommand(req[r].inp) EXCEPT !.status = req[r].inp.status])
              /\ articles[req[r].art].tags = <<>>
              /\ articles[req[r].art].featured = UndefStr
        /\ BeforeFeatured(r) =>
              /\ articles[req[r].art].tags = req[r].allTags
              /\ articles[req[r].art].featured = UndefStr
        /\ BeforeMedia(r) =>
              /\ articles[req[r].art].tags = req[r].allTags
              /\ articles[req[r].art].featured = req[r].upFeatured
        /\ \A s \in Parallel \ {r} :
              (/\ BeforeLastUpdate(r) /\ req[s].op = "findById" /\ req[s].result = "OK"
               /\ req[s].target = req[r].art) =>
                  /\ BeforeAttach(r) => req[s].existing = articles[req[r].art]
                  /\ req[s].existing.status = req[r].inp.status
                  /\ req[s].existing.images = <<>> /\ req[s].existing.videos = <<>>
                  /\ req[s].existing.tags \in {<<>>, req[r].allTags}
                  /\ req[s].existing.featured \in {UndefStr, req[r].upFeatured}

\* A reader got the published article of a create that asked for a tag and an
\* image while it had none; the create then failed and its compensation
\* removed the article the reader had seen.
C29_Witness ==
    \E r \in Parallel, s \in Parallel :
        /\ req[r].op = "create" /\ req[r].pc = "done" /\ req[r].result = "BadRequest"
        /\ req[r].art # "" /\ req[r].art \notin DOMAIN articles
        /\ req[s].op = "findById" /\ req[s].result = "OK" /\ req[s].target = req[r].art
        /\ req[s].existing.status = "published" /\ req[s].existing.tags = <<>>
        /\ req[s].existing.images = <<>>

\* C30: the images, videos and tags an update persists are computed from
\* the article as the request fetched it at its start, not from the article
\* as it is stored when the update is persisted, and they replace the stored
\* ones; so what a parallel update persisted in between is lost.
C30_StaleMerge ==
    [][\A r \in Parallel :
         (/\ req[r].op = "update" /\ req[r].pc = "u_persist"
          /\ req'[r].pc = "u_refetch") =>
             LET q == req[r] IN
             /\ articles'[q.art].images =
                    Kept(q.existing.images, SeqToSet(q.removed.images)) \o q.upImages
             /\ articles'[q.art].videos =
                    Kept(q.existing.videos, SeqToSet(q.removed.videos)) \o q.upVideos]_vars

\* Two updates of a1 in parallel, each adding one image, both answered OK,
\* and the stored image list lacks the image one of them added.
C30_Witness ==
    /\ \A r \in Parallel :
          /\ req[r].op = "update" /\ req[r].pc = "done" /\ req[r].result = "OK"
          /\ req[r].art = "a1" /\ Cardinality(UploadedBy(req[r])) = 1
    /\ \E r \in Parallel : ~(UploadedBy(req[r]) \subseteq SeqToSet(articles["a1"].images))

\* C31: no request removes a Tag entity: over every step the tag repository
\* only grows, every Tag a create request made from an inline spec is in the
\* repository from the completion of its creation on, whatever became of the
\* request and of its skeleton, and an update that removes tags from an
\* article leaves the repository as it is.
TagsMade(q) ==
    {q.log[i].id : i \in {j \in 1..Len(q.log) : q.log[j].op = "createTag" /\ q.log[j].ok}}
C31_TagsOnlyGrow ==
    [][/\ tagRepo \subseteq tagRepo'
       /\ \A r \in DOMAIN req :
             /\ req'[r].op = "create" =>
                   TagsMade(req'[r]) \subseteq
                       TagIdsOf(tagRepo') \cup {c.id : c \in {d \in req'[r].flight : d.ok}}
             /\ (req'[r].op = "update" /\ req'[r] # req[r]) => tagRepo' = tagRepo]_vars

\* A create with two inline specs of which one tag creation succeeded and the
\* other failed: answered BadRequest, its skeleton deleted, the Tag it made
\* still in the repository.
C31_Witness ==
    \E r \in Slots :
        /\ Done(r, "create") /\ req[r].result = "BadRequest" /\ req[r].flight = {}
        /\ req[r].art # "" /\ req[r].art \notin DOMAIN articles
        /\ TagsMade(req[r]) # {}
        /\ \E i \in 1..Len(req[r].log) : req[r].log[i].op = "createTag" /\ ~req[r].log[i].ok
        /\ TagsMade(req[r]) \subseteq TagIdsOf(tagRepo)
        /\ TagsMade(req[r]) \cap TagIdsOf(OldTags) = {}
====
